---- MODULE Spec2Model ----
(***************************************************************************)
(* A model of the sorbet-color crate: the six colour model types, the      *)
(* conversions between them, the hexadecimal encoders and decoders, the    *)
(* CSS functional-notation parser and formatter (css.rs) and the           *)
(* Color::new constructor (lib.rs).                                        *)
(*                                                                         *)
(* Every operation of the crate is a pure function.  The state machine     *)
(* holds one value (`value`), the input it started from (`origin`) and the *)
(* names of the operations applied so far (`trace`); each action applies   *)
(* one operation of the crate to the current value.                        *)
(*                                                                         *)
(* f64 channels are modelled as exact rationals [n, d] in lowest terms     *)
(* (d > 0), so the arithmetic of the conversions is the arithmetic of the  *)
(* source without rounding.  Strings are sequences of one-character        *)
(* strings.  A u32 is its four bytes, most significant first.              *)
(***************************************************************************)
EXTENDS Integers, Sequences, FiniteSets, TLC

VARIABLES origin, value, trace

vars == <<origin, value, trace>>

(***************************************************************************)
(* Bounds of the exploration.                                              *)
(***************************************************************************)
\* how many of ByteSamples the inputs are drawn from
NumSamples == 6
\* how many of HueSamples the inputs are drawn from
NumHues == 4
\* longest chain of conversions applied to one input
MaxPath == 4
\* a conversion is applied only to channels whose denominator does not exceed this
\* magnitude and whose numerator does not exceed its square (keeps the exact
\* arithmetic inside TLC's integers)
MaxTerm == 1024

(***************************************************************************)
(* Exact rational arithmetic standing for f64 arithmetic.                  *)
(***************************************************************************)
RECURSIVE Gcd(_, _)
Gcd(a, b) == IF b = 0 THEN a ELSE Gcd(b, a % b)

AbsInt(a) == IF a < 0 THEN 0 - a ELSE a

\* the rational n/d (d # 0) in lowest terms with a positive denominator
Rat(n, d) ==
    LET g == Gcd(AbsInt(n), AbsInt(d))
        sgn == IF d < 0 THEN 0 - 1 ELSE 1
    IN  [n |-> sgn * (n \div g), d |-> sgn * (d \div g)]

\* (n \div g) above is exact, g divides n; TLA+ \div floors, which agrees on exact quotients
Int2Rat(k) == [n |-> k, d |-> 1]

Zero == Int2Rat(0)
One == Int2Rat(1)

Add(a, b) ==
    LET g == Gcd(a.d, b.d)
        l == (a.d \div g) * b.d
    IN  Rat(a.n * (l \div a.d) + b.n * (l \div b.d), l)

Neg(a) == [n |-> 0 - a.n, d |-> a.d]

Sub(a, b) == Add(a, Neg(b))

Mul(a, b) ==
    LET g1 == Gcd(AbsInt(a.n), b.d)
        g2 == Gcd(AbsInt(b.n), a.d)
    IN  IF a.n = 0 \/ b.n = 0 THEN Zero
        ELSE [n |-> (a.n \div g1) * (b.n \div g2), d |-> (a.d \div g2) * (b.d \div g1)]

\* b # 0
Div(a, b) == Mul(a, IF b.n < 0 THEN [n |-> 0 - b.d, d |-> 0 - b.n] ELSE [n |-> b.d, d |-> b.n])

Less(a, b) == Sub(a, b).n < 0

Leq(a, b) == Sub(a, b).n <= 0

RAbs(a) == [n |-> AbsInt(a.n), d |-> a.d]

\* f64::max and f64::min on numbers
RMax(a, b) == IF Less(a, b) THEN b ELSE a

RMin(a, b) == IF Less(b, a) THEN b ELSE a

\* floor of a rational, as an integer
Floor(a) == a.n \div a.d

\* truncation toward zero, as an integer
Trunc(a) == IF a.n < 0 THEN 0 - (AbsInt(a.n) \div a.d) ELSE a.n \div a.d

\* the f64 `%` operator (fmod): a - b * trunc(a / b), the sign of the dividend
RMod(a, b) == Sub(a, Mul(b, Int2Rat(Trunc(Div(a, b)))))

\* half-open range a..b of Rust: (a..b).contains(&x)
InRange(a, b, x) == Leq(a, x) /\ Less(x, b)

\* f64::clamp(x, lo, hi)
Clamp(x, lo, hi) == IF Less(x, lo) THEN lo ELSE IF Less(hi, x) THEN hi ELSE x

(***************************************************************************)
(* The six colour structures (types/rgb.rs ... types/hsla.rs).  The types  *)
(* do not enforce the documented channel ranges.                           *)
(***************************************************************************)
Rgb(r, g, b) == [type |-> "Rgb", r |-> r, g |-> g, b |-> b]

Rgba(r, g, b, alpha) == [type |-> "Rgba", r |-> r, g |-> g, b |-> b, alpha |-> alpha]

Hsv(h, s, v) == [type |-> "Hsv", h |-> h, s |-> s, v |-> v]

Hsva(h, s, v, alpha) == [type |-> "Hsva", h |-> h, s |-> s, v |-> v, alpha |-> alpha]

Hsl(h, s, l) == [type |-> "Hsl", h |-> h, s |-> s, l |-> l]

Hsla(h, s, l, alpha) == [type |-> "Hsla", h |-> h, s |-> s, l |-> l, alpha |-> alpha]

\* the outcome of a panicking operation (unreachable!(), expect(), a slice out of bounds)
Panic == [type |-> "Panic"]

\* the channels of a colour value, in field order
Channels(c) ==
    CASE c.type = "Rgb" -> <<c.r, c.g, c.b>>
      [] c.type = "Rgba" -> <<c.r, c.g, c.b, c.alpha>>
      [] c.type = "Hsv" -> <<c.h, c.s, c.v>>
      [] c.type = "Hsva" -> <<c.h, c.s, c.v, c.alpha>>
      [] c.type = "Hsl" -> <<c.h, c.s, c.l>>
      [] c.type = "Hsla" -> <<c.h, c.s, c.l, c.alpha>>
      [] c.type = "Css" -> [i \in 1..Len(c.values) |-> c.values[i].x]
      [] OTHER -> <<>>

\* every channel is small enough for one more conversion, or its formatting, to be
\* computed exactly
Fits(c) ==
    \A i \in 1..Len(Channels(c)) :
        /\ Channels(c)[i].d <= MaxTerm
        /\ AbsInt(Channels(c)[i].n) <= MaxTerm * MaxTerm

(***************************************************************************)
(* Model-to-model conversions.                                             *)
(***************************************************************************)
\* the marker of the `_ => unreachable!()` arm of the hue selection
Unreachable == [n |-> 0, d |-> 0]

\* hue_from_rgb without the `if h < 0.0 { h += 360.0 }` normalisation
hue_from_rgb_no_wrap(other) ==
    LET xmax == RMax(other.r, RMax(other.g, other.b))
        xmin == RMin(other.r, RMin(other.g, other.b))
        c == Sub(xmax, xmin)
    IN  IF c = Zero THEN Zero
        ELSE IF xmax = other.r
             THEN Mul(Int2Rat(60), Div(Sub(other.g, other.b), c))
        ELSE IF xmax = other.g
             THEN Mul(Int2Rat(60), Add(Div(Sub(other.b, other.r), c), Int2Rat(2)))
        ELSE Mul(Int2Rat(60), Add(Div(Sub(other.r, other.g), c), Int2Rat(4)))

\* the hue computed by From<Rgb> for Hsv and From<Rgb> for Hsl (the same code in both)
hue_from_rgb(other) ==
    LET xmax == RMax(other.r, RMax(other.g, other.b))
        xmin == RMin(other.r, RMin(other.g, other.b))
        c == Sub(xmax, xmin)
        h == IF c = Zero THEN Zero
             ELSE IF xmax = other.r
                  THEN Mul(Int2Rat(60), Div(Sub(other.g, other.b), c))
             ELSE IF xmax = other.g
                  THEN Mul(Int2Rat(60), Add(Div(Sub(other.b, other.r), c), Int2Rat(2)))
             ELSE IF xmax = other.b
                  THEN Mul(Int2Rat(60), Add(Div(Sub(other.r, other.g), c), Int2Rat(4)))
             ELSE Unreachable
    IN  IF h = Unreachable THEN Unreachable
        ELSE IF Less(h, Zero) THEN Add(h, Int2Rat(360)) ELSE h

Hsv_from_Rgb(other) ==
    LET xmax == RMax(other.r, RMax(other.g, other.b))
        xmin == RMin(other.r, RMin(other.g, other.b))
        c == Sub(xmax, xmin)
        h == hue_from_rgb(other)
        s == IF xmax = Zero THEN Zero ELSE Div(c, xmax)
    IN  IF h = Unreachable THEN Panic ELSE Hsv(h, s, xmax)

Hsl_from_Rgb(other) ==
    LET xmax == RMax(other.r, RMax(other.g, other.b))
        xmin == RMin(other.r, RMin(other.g, other.b))
        c == Sub(xmax, xmin)
        h == hue_from_rgb(other)
        l == Div(Add(xmax, xmin), Int2Rat(2))
        s == IF l = Zero \/ l = One THEN Zero
             ELSE Div(c, Sub(One, RAbs(Sub(Sub(Mul(Int2Rat(2), xmax), c), One))))
    IN  IF h = Unreachable THEN Panic ELSE Hsl(h, s, l)

neighboring(c, x, h1) ==
    IF InRange(Int2Rat(0), Int2Rat(1), h1) THEN <<c, x, Zero>>
    ELSE IF InRange(Int2Rat(1), Int2Rat(2), h1) THEN <<x, c, Zero>>
    ELSE IF InRange(Int2Rat(2), Int2Rat(3), h1) THEN <<Zero, c, x>>
    ELSE IF InRange(Int2Rat(3), Int2Rat(4), h1) THEN <<Zero, x, c>>
    ELSE IF InRange(Int2Rat(4), Int2Rat(5), h1) THEN <<x, Zero, c>>
    ELSE IF InRange(Int2Rat(5), Int2Rat(6), h1) THEN <<c, Zero, x>>
    ELSE <<Zero, Zero, Zero>>

Rgb_from_Hsv(other) ==
    LET c == Mul(other.v, other.s)
        h1 == Div(other.h, Int2Rat(60))
        x == Mul(c, Sub(One, RAbs(Sub(RMod(h1, Int2Rat(2)), One))))
        n == neighboring(c, x, h1)
        m == Sub(other.v, c)
    IN  Rgb(Add(n[1], m), Add(n[2], m), Add(n[3], m))

Rgb_from_Hsl(other) ==
    LET c == Mul(Sub(One, RAbs(Sub(Mul(Int2Rat(2), other.l), One))), other.s)
        h1 == Div(other.h, Int2Rat(60))
        x == Mul(c, Sub(One, RAbs(Sub(RMod(h1, Int2Rat(2)), One))))
        n == neighboring(c, x, h1)
        m == Sub(other.l, Div(c, Int2Rat(2)))
    IN  Rgb(Add(n[1], m), Add(n[2], m), Add(n[3], m))

Hsl_from_Hsv(other) ==
    LET l == Mul(other.v, Sub(One, Div(other.s, Int2Rat(2))))
        sl == IF l = Zero \/ l = One THEN Zero
              ELSE Mul(Int2Rat(2), Sub(One, Div(l, other.v)))
    IN  Hsl(other.h, sl, l)

Hsv_from_Hsl(other) ==
    LET v == Add(other.l, Mul(other.s, RMin(other.l, Sub(One, other.l))))
        sv == IF v = Zero THEN Zero
              ELSE Mul(Int2Rat(2), Sub(One, Div(other.l, v)))
    IN  Hsv(other.h, sv, v)

(***************************************************************************)
(* Inputs of the conversion machine.                                       *)
(***************************************************************************)
\* bytes the sampled channels are built from (channel = byte / 255)
ByteSamples == <<0, 255, 128, 51, 204, 1, 85, 254, 170, 102>>

\* hues in degrees, in [0, 360)
HueSamples == <<0, 200, 60, 330, 120, 359, 240, 45>>

Bytes == {ByteSamples[i] : i \in 1..NumSamples}

Units == {Rat(k, 255) : k \in Bytes}

Hues == {Int2Rat(HueSamples[i]) : i \in 1..NumHues}

RgbInputs == {Rgb(r, g, b) : r \in Units, g \in Units, b \in Units}

HsvInputs == {Hsv(h, s, v) : h \in Hues, s \in Units, v \in Units}

HslInputs == {Hsl(h, s, l) : h \in Hues, s \in Units, l \in Units}

(***************************************************************************)
(* The conversion machine: a colour and the chain of From conversions      *)
(* applied to it.                                                          *)
(***************************************************************************)
Init ==
    /\ origin \in RgbInputs \cup HsvInputs \cup HslInputs
    /\ value = origin
    /\ trace = <<>>

\* one application of the operation `name`, computing `result` from a value of type `from`
Apply(name, from, result) ==
    /\ value.type = from
    /\ Len(trace) < MaxPath
    /\ value' = result
    /\ trace' = Append(trace, name)
    /\ UNCHANGED origin

\* one application of a conversion between colour models
Convert(name, from, result) == Fits(value) /\ Apply(name, from, result)

RgbToHsv == Convert("Hsv_from_Rgb", "Rgb", Hsv_from_Rgb(value))

RgbToHsl == Convert("Hsl_from_Rgb", "Rgb", Hsl_from_Rgb(value))

HsvToRgb == Convert("Rgb_from_Hsv", "Hsv", Rgb_from_Hsv(value))

HslToRgb == Convert("Rgb_from_Hsl", "Hsl", Rgb_from_Hsl(value))

HsvToHsl == Convert("Hsl_from_Hsv", "Hsv", Hsl_from_Hsv(value))

HslToHsv == Convert("Hsv_from_Hsl", "Hsl", Hsv_from_Hsl(value))

Next ==
    \/ RgbToHsv
    \/ RgbToHsl
    \/ HsvToRgb
    \/ HslToRgb
    \/ HsvToHsl
    \/ HslToHsv

Spec == Init /\ [][Next]_vars

(***************************************************************************)
(* Round trips between the colour models.                                  *)
(***************************************************************************)
IsByteRgb(c) == c \in RgbInputs

\* C1: for every RGB value whose channels are byte/255, RGB -> HSV -> RGB and
\* RGB -> HSL -> RGB return the value they started from (exactly, in exact arithmetic).
C1_RgbRoundTrip ==
    (/\ IsByteRgb(origin)
     /\ \/ trace = <<"Hsv_from_Rgb", "Rgb_from_Hsv">>
        \/ trace = <<"Hsl_from_Rgb", "Rgb_from_Hsl">>)
    => value = origin

\* a colour with three different channels went through HSL and came back
C1_Witness ==
    /\ IsByteRgb(origin)
    /\ origin.r # origin.g /\ origin.g # origin.b /\ origin.r # origin.b
    /\ trace = <<"Hsl_from_Rgb", "Rgb_from_Hsl">>
    /\ value = origin

\* C2: for every valid RGB value the chain RGB -> HSV -> HSL -> HSV -> RGB returns the
\* value it started from, and for every in-range HSV value HSV -> HSL -> HSV returns it.
C2_ChainRoundTrip ==
    /\ (/\ IsByteRgb(origin)
        /\ trace = <<"Hsv_from_Rgb", "Hsl_from_Hsv", "Hsv_from_Hsl", "Rgb_from_Hsv">>)
       => value = origin
    /\ (/\ origin \in HsvInputs
        /\ origin.v # Zero
        /\ trace = <<"Hsl_from_Hsv", "Hsv_from_Hsl">>)
       => value = origin

(***************************************************************************)
(* Bytes, packed integers and hexadecimal text.                            *)
(***************************************************************************)
Str(s) == [type |-> "Str", s |-> s]

UpperHex == <<"0", "1", "2", "3", "4", "5", "6", "7", "8", "9", "A", "B", "C", "D", "E", "F">>

LowerHex == <<"0", "1", "2", "3", "4", "5", "6", "7", "8", "9", "a", "b", "c", "d", "e", "f">>

\* u8::is_ascii_hexdigit
is_ascii_hexdigit(ch) == \E i \in 1..16 : UpperHex[i] = ch \/ LowerHex[i] = ch

\* char::to_digit(16) of a hexadecimal digit
to_digit(ch) == (CHOOSE i \in 1..16 : UpperHex[i] = ch \/ LowerHex[i] = ch) - 1

\* f64::round: to the nearest integer, halves away from zero
round(x) ==
    IF x.n >= 0 THEN Floor(Add(x, Rat(1, 2)))
    ELSE 0 - Floor(Add(Neg(x), Rat(1, 2)))

\* `f as u8`: the saturating cast of an integral float
as_u8(k) == IF k < 0 THEN 0 ELSE IF k > 255 THEN 255 ELSE k

\* one channel of From<Rgb> for [u8; 3] and From<Rgba> for [u8; 4]
channel_to_u8(x) == as_u8(round(Mul(x, Int2Rat(255))))

u8x3_from_Rgb(color) ==
    <<channel_to_u8(color.r), channel_to_u8(color.g), channel_to_u8(color.b)>>

u8x4_from_Rgba(color) ==
    <<channel_to_u8(color.r), channel_to_u8(color.g), channel_to_u8(color.b),
      channel_to_u8(color.alpha)>>

Rgb_from_u8x3(array) == Rgb(Rat(array[1], 255), Rat(array[2], 255), Rat(array[3], 255))

Rgba_from_u8x4(array) ==
    Rgba(Rat(array[1], 255), Rat(array[2], 255), Rat(array[3], 255), Rat(array[4], 255))

\* u32_from_Rgb with the red and blue bytes exchanged
u32_from_Rgb_bgr(color) ==
    LET a == u8x3_from_Rgb(color) IN <<a[3], a[2], a[1], 0>>

\* a u32 is the sequence of its four bytes, most significant first:
\* (r << 24) | (g << 16) | (b << 8) is <<r, g, b, 0>>
u32_from_Rgb(color) ==
    LET a == u8x3_from_Rgb(color) IN <<a[1], a[2], a[3], 0>>

u32_from_Rgba(color) ==
    LET a == u8x4_from_Rgba(color) IN <<a[1], a[2], a[3], a[4]>>

\* int >> 8 on the four bytes
shr8(int) == <<0, int[1], int[2], int[3]>>

\* the hexadecimal digits of a u32, all eight of them
RECURSIVE hex_digits(_)
hex_digits(int) ==
    IF int = <<>> THEN <<>>
    ELSE <<UpperHex[(int[1] \div 16) + 1], UpperHex[(int[1] % 16) + 1]>> \o hex_digits(Tail(int))

RECURSIVE strip_zeros(_, _)
strip_zeros(digits, width) ==
    IF Len(digits) > width /\ digits[1] = "0" THEN strip_zeros(Tail(digits), width)
    ELSE digits

\* format!("{:0wX}", int): upper-case digits, zero-padded to at least `width` digits
format_X(int, width) == strip_zeros(hex_digits(int), width)

\* the Display of Rgb without the zero padding
Rgb_to_string_unpadded(color) == Str(<<"#">> \o format_X(shr8(u32_from_Rgb(color)), 1))

\* impl fmt::Display for Rgb
Rgb_to_string(color) == Str(<<"#">> \o format_X(shr8(u32_from_Rgb(color)), 6))

\* Rgba::hex
Rgba_hex(color) == Str(<<"#">> \o format_X(u32_from_Rgba(color), 8))

\* str::strip_prefix(ch).unwrap_or(s)
strip_prefix_or(s, ch) == IF Len(s) > 0 /\ s[1] = ch THEN Tail(s) ELSE s

\* u8::from_str_radix(src, 16): an optional '+' and then hexadecimal digits; -1 stands for Err
u8_from_str_radix(src) ==
    LET digits == IF Len(src) > 1 /\ src[1] = "+" THEN Tail(src) ELSE src
        RECURSIVE val(_, _)
        val(ds, acc) ==
            IF ds = <<>> THEN acc
            ELSE IF ~is_ascii_hexdigit(ds[1]) THEN 0 - 1
            ELSE IF acc * 16 + to_digit(ds[1]) > 255 THEN 0 - 1
            ELSE val(Tail(ds), acc * 16 + to_digit(ds[1]))
    IN  IF digits = <<>> \/ digits = <<"+">> \/ digits = <<"-">> THEN 0 - 1 ELSE val(digits, 0)

\* impl From<&str> for Rgb: panics on a short string or a pair that is not hexadecimal
Rgb_from_str(string0) ==
    LET string == strip_prefix_or(string0, "#")
        r == u8_from_str_radix(SubSeq(string, 1, 2))
        g == u8_from_str_radix(SubSeq(string, 3, 4))
        b == u8_from_str_radix(SubSeq(string, 5, 6))
    IN  IF Len(string) < 6 \/ r < 0 \/ g < 0 \/ b < 0 THEN Panic
        ELSE Rgb(Rat(r, 255), Rat(g, 255), Rat(b, 255))

\* impl From<&str> for Rgba
Rgba_from_str(string0) ==
    LET string == strip_prefix_or(string0, "#")
        rgb == Rgb_from_str(string)
        alpha == u8_from_str_radix(SubSeq(string, 7, 8))
    IN  IF rgb = Panic \/ Len(string) < 8 \/ alpha < 0 THEN Panic
        ELSE Rgba(Div(rgb.r, Int2Rat(255)), Div(rgb.g, Int2Rat(255)),
                  Div(rgb.b, Int2Rat(255)), Rat(alpha, 255))

(***************************************************************************)
(* The hexadecimal machine: a byte colour or a hexadecimal string, and the *)
(* encoders and decoders applied to it.                                    *)
(***************************************************************************)
\* digit pairs the sampled hexadecimal strings are built from
PairSamples == <<<<"F", "F">>, <<"0", "0">>, <<"8", "0">>, <<"1", "a">>, <<"0", "F">>,
                 <<"f", "e">>, <<"3", "C">>>>

\* how many of PairSamples the strings are drawn from
NumPairs == 4

Pairs == {PairSamples[i] : i \in 1..NumPairs}

HexStrings6 ==
    {p \o (a \o (b \o c)) : p \in {<<>>, <<"#">>}, a \in Pairs, b \in Pairs, c \in Pairs}

HexStrings8 == {s \o d : s \in HexStrings6, d \in Pairs}

RgbaInputs == {Rgba(r, g, b, a) : r \in Units, g \in Units, b \in Units, a \in Units}

InitHex ==
    /\ origin \in RgbInputs \cup RgbaInputs
                  \cup {Str(s) : s \in HexStrings6} \cup {Str(s) : s \in HexStrings8}
    /\ value = origin
    /\ trace = <<>>

RgbDisplay == Apply("Rgb_to_string", "Rgb", Rgb_to_string(value))

RgbaHex == Apply("Rgba_hex", "Rgba", Rgba_hex(value))

RgbFromStr == Apply("Rgb_from_str", "Str", Rgb_from_str(value.s))

\* the RGBA decoder is given strings of eight digits; on a shorter one it panics
RgbaFromStr == Apply("Rgba_from_str", "Str", Rgba_from_str(value.s))

NextHex ==
    \/ RgbDisplay
    \/ RgbaHex
    \/ RgbFromStr
    \/ RgbaFromStr

SpecHex == InitHex /\ [][NextHex]_vars

\* the value of the digit pair at positions i, i+1 of a string of hexadecimal digits
PairValue(s, i) == to_digit(s[i]) * 16 + to_digit(s[i + 1])

\* the digits of a string in upper case, without the leading '#'
UpperDigits(s) ==
    LET t == strip_prefix_or(s, "#")
    IN  [i \in 1..Len(t) |-> UpperHex[to_digit(t[i]) + 1]]

\* C5: for all bytes (r, g, b), hex-encoding Rgb{r/255, g/255, b/255} and decoding the
\* string with the Rgb decoder returns exactly the same Rgb; "#FF0000" decodes to
\* {1, 0, 0}, which encodes back to "#FF0000".
C5_HexRoundTrip ==
    /\ (IsByteRgb(origin) /\ trace = <<"Rgb_to_string", "Rgb_from_str">>) => value = origin
    /\ (origin = Str(<<"#", "F", "F", "0", "0", "0", "0">>) /\ trace = <<"Rgb_from_str">>)
       => value = Rgb(One, Zero, Zero)
    /\ (origin = Str(<<"#", "F", "F", "0", "0", "0", "0">>)
        /\ trace = <<"Rgb_from_str", "Rgb_to_string">>)
       => value = origin

\* a colour with three different channels was encoded and decoded again
C5_Witness ==
    /\ IsByteRgb(origin)
    /\ origin.r # origin.g /\ origin.g # origin.b /\ origin.r # origin.b
    /\ trace = <<"Rgb_to_string", "Rgb_from_str">>
    /\ value = origin

IsHex8(c) == c.type = "Str" /\ c.s \in HexStrings8

\* C6: for every string of eight hexadecimal digits (with or without '#') the RGBA decoder
\* yields r, g, b and alpha equal to the value of the corresponding digit pair divided by
\* 255, and decoding followed by hex-encoding returns the original eight digits.
C6_RgbaDecode ==
    LET t == strip_prefix_or(origin.s, "#")
    IN  /\ (IsHex8(origin) /\ trace = <<"Rgba_from_str">>)
           => value = Rgba(Rat(PairValue(t, 1), 255), Rat(PairValue(t, 3), 255),
                           Rat(PairValue(t, 5), 255), Rat(PairValue(t, 7), 255))
        /\ (IsHex8(origin) /\ trace = <<"Rgba_from_str", "Rgba_hex">>)
           => value = Str(<<"#">> \o UpperDigits(origin.s))

(***************************************************************************)
(* CSS functional notation (css.rs): numbers, the parsed notation, its     *)
(* parser and its formatter.                                               *)
(***************************************************************************)
Err(e) == [type |-> "Err", e |-> e]

Percent(x) == [tag |-> "Percent", x |-> x]

Float(x) == [tag |-> "Float", x |-> x]

\* struct CssColorNotation; `format` is the name of the CssColorType variant
CssColorNotation(format, values) == [type |-> "Css", format |-> format, values |-> values]

CssColorTypes == {"Rgb", "Rgba", "Hsv", "Hsva", "Hsl", "Hsla"}

\* strum::Display with serialize_all = "snake_case"
CssColorType_to_string(format) ==
    CASE format = "Rgb" -> <<"r", "g", "b">>
      [] format = "Rgba" -> <<"r", "g", "b", "a">>
      [] format = "Hsv" -> <<"h", "s", "v">>
      [] format = "Hsva" -> <<"h", "s", "v", "a">>
      [] format = "Hsl" -> <<"h", "s", "l">>
      [] format = "Hsla" -> <<"h", "s", "l", "a">>

\* strum::EnumString with serialize_all = "snake_case": an exact, case-sensitive match;
\* "Err" when no variant matches
CssColorType_from_str(string) ==
    IF \E f \in CssColorTypes : CssColorType_to_string(f) = string
    THEN CHOOSE f \in CssColorTypes : CssColorType_to_string(f) = string
    ELSE "Err"

\* str::replace(' ', "")
RECURSIVE remove_spaces(_)
remove_spaces(string) ==
    IF string = <<>> THEN <<>>
    ELSE IF string[1] = " " THEN remove_spaces(Tail(string))
    ELSE <<string[1]>> \o remove_spaces(Tail(string))

\* the position of the first `ch` in a string, 0 when there is none
RECURSIVE find(_, _)
find(string, ch) ==
    IF string = <<>> THEN 0
    ELSE IF string[1] = ch THEN 1
    ELSE LET k == find(Tail(string), ch) IN IF k = 0 THEN 0 ELSE k + 1

\* str::split(ch): always at least one segment
RECURSIVE split(_, _)
split(string, ch) ==
    LET k == find(string, ch)
    IN  IF k = 0 THEN <<string>>
        ELSE <<SubSeq(string, 1, k - 1)>> \o split(SubSeq(string, k + 1, Len(string)), ch)

ends_with(string, ch) == Len(string) > 0 /\ string[Len(string)] = ch

is_ascii_digit(ch) == \E i \in 1..10 : UpperHex[i] = ch

\* the outcome of a failed str::parse::<f64>()
ParseError == [n |-> 0, d |-> 0]

\* the value of a string of decimal digits
RECURSIVE digits_value(_, _)
digits_value(ds, acc) ==
    IF ds = <<>> THEN acc ELSE digits_value(Tail(ds), acc * 10 + to_digit(ds[1]))

RECURSIVE pow10(_)
pow10(k) == IF k = 0 THEN 1 ELSE 10 * pow10(k - 1)

\* str::parse::<f64>() on decimal text: an optional sign, digits with at most one '.',
\* at least one digit ("5." and ".5" are accepted).  Exponents, "inf" and "nan" are
\* not part of the sampled text.
parse_f64(string) ==
    LET signed == Len(string) > 0 /\ (string[1] = "-" \/ string[1] = "+")
        body == IF signed THEN Tail(string) ELSE string
        dot == find(body, ".")
        int == IF dot = 0 THEN body ELSE SubSeq(body, 1, dot - 1)
        frac == IF dot = 0 THEN <<>> ELSE SubSeq(body, dot + 1, Len(body))
        ok == /\ Len(int) + Len(frac) > 0
              /\ \A i \in 1..Len(int) : is_ascii_digit(int[i])
              /\ \A i \in 1..Len(frac) : is_ascii_digit(frac[i])
        mag == Rat(digits_value(int \o frac, 0), pow10(Len(frac)))
    IN  IF ~ok THEN ParseError
        ELSE IF signed /\ string[1] = "-" THEN Neg(mag) ELSE mag

\* impl FromStr for CssNumber
CssNumber_from_str(string) ==
    IF ends_with(string, "%")
    THEN LET x == parse_f64(SubSeq(string, 1, Len(string) - 1))
         IN  IF x = ParseError THEN Err("InvalidCssPercent")
             ELSE Percent(Div(x, Int2Rat(100)))
    ELSE LET x == parse_f64(string)
         IN  IF x = ParseError THEN Err("InvalidCssFloat") ELSE Float(x)

\* arity that asks three values of every format
arity_always_three(format) == 3

\* the arity `match` of impl FromStr for CssColorNotation
arity(format) == IF format \in {"Rgb", "Hsv", "Hsl"} THEN 3 ELSE 4

IsErr(result) == "type" \in DOMAIN result /\ result.type = "Err"

\* a collect that goes through the whole sequence and keeps the last Err
collect_last(results) ==
    IF \E i \in 1..Len(results) : IsErr(results[i])
    THEN results[CHOOSE i \in 1..Len(results) :
                    /\ IsErr(results[i])
                    /\ \A j \in (i + 1)..Len(results) : ~IsErr(results[j])]
    ELSE [type |-> "Ok", v |-> results]

\* collect::<Result<Vec<_>>>(): the first Err of the sequence, or Ok of the sequence
collect(results) ==
    IF \E i \in 1..Len(results) : IsErr(results[i])
    THEN results[CHOOSE i \in 1..Len(results) :
                    /\ IsErr(results[i])
                    /\ \A j \in 1..(i - 1) : ~IsErr(results[j])]
    ELSE [type |-> "Ok", v |-> results]

\* impl FromStr for CssColorNotation, for a given FromStr of its numbers
parse_notation(number_from_str(_), string0) ==
    LET string == remove_spaces(string0)
        k == find(string, "(")
        format_str == SubSeq(string, 1, k - 1)
        rest == SubSeq(string, k + 1, Len(string))
        inner == SubSeq(rest, 1, Len(rest) - 1)
        format == CssColorType_from_str(format_str)
        segments == split(inner, ",")
        values == collect([i \in 1..Len(segments) |-> number_from_str(segments[i])])
    IN  IF k = 0 THEN Err("MissingCssParens")
        ELSE IF ~ends_with(rest, ")") THEN Err("MissingCssParens")
        ELSE IF format = "Err" THEN Err("UnknownCssFormat")
        ELSE IF IsErr(values) THEN values
        ELSE IF Len(values.v) # arity(format) THEN Err("InvalidCssParams")
        ELSE CssColorNotation(format, values.v)

\* impl FromStr for CssColorNotation
CssColorNotation_from_str(string0) == parse_notation(CssNumber_from_str, string0)

\* the decimal digits of a natural number
RECURSIVE int_digits(_)
int_digits(k) ==
    IF k < 10 THEN <<UpperHex[k + 1]>>
    ELSE int_digits(k \div 10) \o <<UpperHex[(k % 10) + 1]>>

\* the nearest integer of a non-negative rational, halves to the even neighbour
\* (the rounding of Rust's exact float formatting)
round_half_even(x) ==
    LET f == Floor(x)
        r == Sub(x, Int2Rat(f))
    IN  IF Less(r, Rat(1, 2)) THEN f
        ELSE IF Less(Rat(1, 2), r) THEN f + 1
        ELSE IF f % 2 = 0 THEN f ELSE f + 1

\* the text of k thousandths with three decimals, signed
format_thousandths(negative, k) ==
    LET frac == k % 1000
    IN  (IF negative THEN <<"-">> ELSE <<>>)
        \o int_digits(k \div 1000) \o <<".">>
        \o <<UpperHex[(frac \div 100) + 1], UpperHex[((frac \div 10) % 10) + 1],
             UpperHex[(frac % 10) + 1]>>

\* format!("{:.3}", float)
format_3(float) ==
    format_thousandths(float.n < 0, round_half_even(Mul(RAbs(float), Int2Rat(1000))))

\* str::trim_end_matches(ch)
RECURSIVE trim_end_matches(_, _)
trim_end_matches(string, ch) ==
    IF ends_with(string, ch) THEN trim_end_matches(SubSeq(string, 1, Len(string) - 1), ch)
    ELSE string

float_to_nice_string(float) ==
    trim_end_matches(trim_end_matches(format_3(float), "0"), ".")

\* impl Display for CssNumber
CssNumber_to_string(number) ==
    IF number.tag = "Percent"
    THEN float_to_nice_string(Mul(number.x, Int2Rat(100))) \o <<"%">>
    ELSE float_to_nice_string(number.x)

\* Vec<String>::join(sep)
RECURSIVE join(_, _)
join(strings, sep) ==
    IF strings = <<>> THEN <<>>
    ELSE IF Len(strings) = 1 THEN strings[1]
    ELSE strings[1] \o sep \o join(Tail(strings), sep)

\* impl Display for CssColorNotation, for a given Display of its numbers
display_notation(number_to_string(_), this) ==
    Str(CssColorType_to_string(this.format) \o <<"(">>
        \o join([i \in 1..Len(this.values) |-> number_to_string(this.values[i])],
                <<",", " ">>)
        \o <<")">>)

\* impl Display for CssColorNotation
CssColorNotation_to_string(this) == display_notation(CssNumber_to_string, this)

\* css_number_to_rgb_channel clamping the channel into [0, 1]
css_number_to_rgb_channel_clamped(number) ==
    Clamp(IF number.tag = "Percent" THEN number.x ELSE Div(number.x, Int2Rat(255)), Zero, One)

css_number_to_rgb_channel(number) ==
    IF number.tag = "Percent" THEN number.x ELSE Div(number.x, Int2Rat(255))

css_number_to_float(number) == number.x

(***************************************************************************)
(* Conversions between the parsed notation and the colour types.           *)
(***************************************************************************)
\* impl From<Rgb> for Rgba
Rgba_from_Rgb(other) == Rgba(other.r, other.g, other.b, One)

\* impl From<Hsv> for Hsva
Hsva_from_Hsv(other) == Hsva(other.h, other.s, other.v, One)

\* an alpha default of the lightness instead of 1.0
Hsla_from_Hsl_alpha_l(other) == Hsla(other.h, other.s, other.l, other.l)

\* impl From<Hsl> for Hsla
Hsla_from_Hsl(other) == Hsla(other.h, other.s, other.l, One)

\* impl TryFrom<&css::CssColorNotation> for Rgb
Rgb_try_from(other) ==
    IF other.format \in {"Rgb", "Rgba"}
    THEN IF Len(other.values) < 3 THEN Err("InvalidCssParams")
         ELSE Rgb(css_number_to_rgb_channel(other.values[1]),
                  css_number_to_rgb_channel(other.values[2]),
                  css_number_to_rgb_channel(other.values[3]))
    ELSE Err("WrongCssFormat")

\* impl TryFrom<&css::CssColorNotation> for Rgba
Rgba_try_from(other) ==
    IF other.format = "Rgb"
    THEN IF IsErr(Rgb_try_from(other)) THEN Rgb_try_from(other)
         ELSE Rgba_from_Rgb(Rgb_try_from(other))
    ELSE IF other.format = "Rgba"
    THEN IF IsErr(Rgb_try_from(other)) THEN Rgb_try_from(other)
         ELSE IF Len(other.values) < 4 THEN Err("InvalidCssParams")
         ELSE [Rgba_from_Rgb(Rgb_try_from(other))
                 EXCEPT !.alpha = css_number_to_float(other.values[4])]
    ELSE Err("WrongCssFormat")

\* impl TryFrom<&css::CssColorNotation> for Hsv
Hsv_try_from(other) ==
    IF other.format \in {"Hsv", "Hsva"}
    THEN IF Len(other.values) < 3 THEN Err("InvalidCssParams")
         ELSE Hsv(Mul(css_number_to_float(other.values[1]), Int2Rat(360)),
                  css_number_to_float(other.values[2]),
                  css_number_to_float(other.values[3]))
    ELSE Err("WrongCssFormat")

\* impl TryFrom<&css::CssColorNotation> for Hsva
Hsva_try_from(other) ==
    IF other.format = "Hsv"
    THEN IF IsErr(Hsv_try_from(other)) THEN Hsv_try_from(other)
         ELSE Hsva_from_Hsv(Hsv_try_from(other))
    ELSE IF other.format = "Hsva"
    THEN IF IsErr(Hsv_try_from(other)) THEN Hsv_try_from(other)
         ELSE IF Len(other.values) < 4 THEN Err("InvalidCssParams")
         ELSE [Hsva_from_Hsv(Hsv_try_from(other))
                 EXCEPT !.alpha = css_number_to_float(other.values[4])]
    ELSE Err("WrongCssFormat")

\* impl TryFrom<&css::CssColorNotation> for Hsl
Hsl_try_from(other) ==
    IF other.format \in {"Hsl", "Hsla"}
    THEN IF Len(other.values) < 3 THEN Err("InvalidCssParams")
         ELSE Hsl(Mul(css_number_to_float(other.values[1]), Int2Rat(360)),
                  css_number_to_float(other.values[2]),
                  css_number_to_float(other.values[3]))
    ELSE Err("WrongCssFormat")

\* impl TryFrom<&css::CssColorNotation> for Hsla
Hsla_try_from(other) ==
    IF other.format = "Hsl"
    THEN IF IsErr(Hsl_try_from(other)) THEN Hsl_try_from(other)
         ELSE Hsla_from_Hsl(Hsl_try_from(other))
    ELSE IF other.format = "Hsla"
    THEN IF IsErr(Hsl_try_from(other)) THEN Hsl_try_from(other)
         ELSE IF Len(other.values) < 4 THEN Err("InvalidCssParams")
         ELSE [Hsla_from_Hsl(Hsl_try_from(other))
                 EXCEPT !.alpha = css_number_to_float(other.values[4])]
    ELSE Err("WrongCssFormat")

\* impl From<Rgb> for css::CssColorNotation
Css_from_Rgb(other) ==
    CssColorNotation("Rgb", <<Float(Mul(other.r, Int2Rat(255))),
                              Float(Mul(other.g, Int2Rat(255))),
                              Float(Mul(other.b, Int2Rat(255)))>>)

\* impl From<Rgba> for css::CssColorNotation
Css_from_Rgba(other) ==
    CssColorNotation("Rgba", <<Float(Mul(other.r, Int2Rat(255))),
                               Float(Mul(other.g, Int2Rat(255))),
                               Float(Mul(other.b, Int2Rat(255))),
                               Percent(other.alpha)>>)

\* impl From<Hsv> for css::CssColorNotation
Css_from_Hsv(other) ==
    CssColorNotation("Hsv", <<Float(other.h), Percent(other.s), Percent(other.v)>>)

\* impl From<Hsva> for css::CssColorNotation
Css_from_Hsva(other) ==
    CssColorNotation("Hsva", <<Float(other.h), Percent(other.s), Percent(other.v),
                               Percent(other.alpha)>>)

\* impl From<Hsl> for css::CssColorNotation (the format written is Hsv)
Css_from_Hsl(other) ==
    CssColorNotation("Hsv", <<Float(other.h), Percent(other.s), Percent(other.l)>>)

\* impl From<Hsla> for css::CssColorNotation
Css_from_Hsla(other) ==
    CssColorNotation("Hsla", <<Float(other.h), Percent(other.s), Percent(other.l),
                               Percent(other.alpha)>>)

(***************************************************************************)
(* The notation machine: a text or a colour, and the parser, the formatter *)
(* and the conversions between notation and colour applied to it.          *)
(***************************************************************************)
\* the notations of the test table of css.rs and of the documented scenarios
ExampleStrings ==
    <<<<"r", "g", "b", "(", "1", "2", "7", ".", "5", ",", " ", "2", "5", "5", ",", " ", "0", ")">>,
      <<"r", "g", "b", "(", "1", "0", "0", "%", ",", " ", "5", "0", "%", ",", " ", "7", "5", ".", "5", "%", ")">>,
      <<"r", "g", "b", "(", "1", "2", "7", ".", "5", ",", " ", "1", "2", "0", ",", " ", "9", "5", "%", ")">>,
      <<"r", "g", "b", "a", "(", "1", "2", "7", ".", "5", ",", " ", "1", "2", "0", ",", " ", "9", "5", "%", ",", " ", "3", "0", "%", ")">>,
      <<"r", "g", "b", "a", "(", "1", "2", "7", ".", "5", ",", " ", "1", "2", "0", ",", " ", "9", "5", "%", ",", " ", "0", ".", "3", ")">>,
      <<"h", "s", "v", "a", "(", "3", "6", "0", ",", " ", "3", "0", "%", ",", " ", "6", "0", "%", ",", " ", "0", ".", "7", ")">>,
      <<"h", "s", "l", "a", "(", "2", "4", "0", ".", "5", ",", " ", "3", "0", "%", ",", " ", "6", "0", "%", ",", " ", "0", ".", "7", ")">>,
      <<"h", "s", "l", "(", "2", "4", "0", ",", " ", "1", "0", "0", "%", ",", " ", "5", "0", "%", ")">>,
      <<"r", "g", "b", "(", "2", "5", "5", ",", "0", ",", "0", ")">>,
      <<"r", "g", "b", "(", "1", "0", "0", "%", ",", "0", "%", ",", "0", "%", ")">>,
      <<"r", "g", "b", "(", "1", ",", "2", ")">>,
      <<"r", "g", "b", "a", "(", "1", ",", "2", ",", "3", ")">>,
      <<"r", "g", "b", "(", "1", ",", "2", ",", "3", ")">>,
      <<"n", "o", "t", "a", "c", "o", "l", "o", "r", "(", "1", ",", "2", ",", "3", ")">>,
      <<"r", "g", "b", "a", "(", "1", ",", "2", ",", "3", ",", "4", ")">>,
      <<"r", "g", "b", "x", "(", "1", ",", "2", ",", "3", ")">>>>

\* format identifiers: the six names, an unknown one and an upper-case one
IdentSamples ==
    <<<<"r", "g", "b">>,
      <<"r", "g", "b", "a">>,
      <<"h", "s", "v">>,
      <<"h", "s", "v", "a">>,
      <<"h", "s", "l">>,
      <<"h", "s", "l", "a">>,
      <<"n", "o", "t", "a", "c", "o", "l", "o", "r">>,
      <<"R", "G", "B">>>>

\* number segments the sampled argument lists are built from
SegSamples ==
    <<<<"2", "5", "5">>,
      <<"1", "5", "0", "%">>,
      <<"-", "2", "0">>,
      <<"x">>,
      <<"5", "0", "%">>,
      <<"0", ".", "5">>,
      <<"x", "%">>,
      <<>>>>

\* how many of SegSamples the argument lists are drawn from
NumSegs == 4

\* longest sampled argument list
MaxArgs == 4

Idents == {IdentSamples[i] : i \in 1..Len(IdentSamples)}

Segs == {SegSamples[i] : i \in 1..NumSegs}

ArgLists == UNION {[1..k -> Segs] : k \in 1..MaxArgs}

\* the text ident(seg,seg,...)
Notation(ident, args) == ident \o <<"(">> \o join(args, <<",">>) \o <<")">>

\* texts whose parentheses are missing, doubled or misplaced
BrokenStrings ==
    {ident \o body : ident \in Idents,
                     body \in {<<"2", "5", "5", ",", "2", "5", "5", ",", "2", "5", "5", ")">>,
                               <<"(", "2", "5", "5", ",", "2", "5", "5", ",", "2", "5", "5">>,
                               <<"(", "2", "5", "5", ",", "2", "5", "5", ",", "2", "5", "5", ")", ")">>,
                               <<"(", "(", "2", "5", "5", ",", "2", "5", "5", ",", "2", "5", "5", ")">>,
                               <<>>}}

TextInputs ==
    {Notation(ident, args) : ident \in Idents, args \in ArgLists}
    \cup {ExampleStrings[i] : i \in 1..Len(ExampleStrings)}
    \cup BrokenStrings

HsvaInputs == {Hsva(h, s, v, a) : h \in Hues, s \in Units, v \in Units, a \in Units}

HslaInputs == {Hsla(h, s, l, a) : h \in Hues, s \in Units, l \in Units, a \in Units}

ColourInputs ==
    RgbInputs \cup RgbaInputs \cup HsvInputs \cup HsvaInputs \cup HslInputs \cup HslaInputs

InitCss ==
    /\ origin \in {Str(t) : t \in TextInputs} \cup ColourInputs
    /\ value = origin
    /\ trace = <<>>

ParseCss == Apply("CssColorNotation_from_str", "Str", CssColorNotation_from_str(value.s))

DisplayCss == Convert("CssColorNotation_to_string", "Css", CssColorNotation_to_string(value))

TryRgb == Apply("Rgb_try_from", "Css", Rgb_try_from(value))

TryRgba == Apply("Rgba_try_from", "Css", Rgba_try_from(value))

TryHsv == Apply("Hsv_try_from", "Css", Hsv_try_from(value))

TryHsva == Apply("Hsva_try_from", "Css", Hsva_try_from(value))

TryHsl == Apply("Hsl_try_from", "Css", Hsl_try_from(value))

TryHsla == Apply("Hsla_try_from", "Css", Hsla_try_from(value))

CssFromRgb == Apply("Css_from_Rgb", "Rgb", Css_from_Rgb(value))

CssFromRgba == Apply("Css_from_Rgba", "Rgba", Css_from_Rgba(value))

CssFromHsv == Apply("Css_from_Hsv", "Hsv", Css_from_Hsv(value))

CssFromHsva == Apply("Css_from_Hsva", "Hsva", Css_from_Hsva(value))

CssFromHsl == Apply("Css_from_Hsl", "Hsl", Css_from_Hsl(value))

CssFromHsla == Apply("Css_from_Hsla", "Hsla", Css_from_Hsla(value))

NextCss ==
    \/ ParseCss
    \/ DisplayCss
    \/ TryRgb
    \/ TryRgba
    \/ TryHsv
    \/ TryHsva
    \/ TryHsl
    \/ TryHsla
    \/ CssFromRgb
    \/ CssFromRgba
    \/ CssFromHsv
    \/ CssFromHsva
    \/ CssFromHsl
    \/ CssFromHsla
    \/ HslToRgb

SpecCss == InitCss /\ [][NextCss]_vars

(***************************************************************************)
(* Properties of the notation layer.                                       *)
(***************************************************************************)
\* the pieces of a text in functional notation, read off the text itself
TextOf(c) == remove_spaces(c.s)

OpenAt(c) == find(TextOf(c), "(")

IdentOf(c) == SubSeq(TextOf(c), 1, OpenAt(c) - 1)

SegmentsOf(c) == split(SubSeq(TextOf(c), OpenAt(c) + 1, Len(TextOf(c)) - 1), ",")

KnownIdents == {CssColorType_to_string(f) : f \in CssColorTypes}

\* parentheses present, identifier known, every segment a number
WellFormed(c) ==
    /\ c.type = "Str"
    /\ OpenAt(c) > 0
    /\ ends_with(TextOf(c), ")")
    /\ IdentOf(c) \in KnownIdents
    /\ \A i \in 1..Len(SegmentsOf(c)) : ~IsErr(CssNumber_from_str(SegmentsOf(c)[i]))

\* the number written in a segment, without its '%'
Written(seg) ==
    IF ends_with(seg, "%") THEN parse_f64(SubSeq(seg, 1, Len(seg) - 1)) ELSE parse_f64(seg)

HueTryFroms == {"Hsv_try_from", "Hsva_try_from", "Hsl_try_from", "Hsla_try_from"}

IsColour(c) == c.type \in CssColorTypes

\* C3: converting a parsed hsv/hsva/hsl/hsla notation into its typed colour sets the hue
\* to the slot-0 number in degrees, unscaled: "hsl(240, 100%, 50%)" yields h = 240 and
\* converts to RGB {0, 0, 1}, and "hsva(360, 30%, 60%, 0.7)" yields h = 360.
C3_HueUnscaled ==
    /\ (/\ Len(trace) = 2
        /\ trace[1] = "CssColorNotation_from_str"
        /\ trace[2] \in HueTryFroms
        /\ IsColour(value)
        /\ WellFormed(origin))
       => value.h = Written(SegmentsOf(origin)[1])
    /\ (/\ origin = Str(<<"h", "s", "l", "(", "2", "4", "0", ",", " ", "1", "0", "0", "%", ",", " ", "5", "0", "%", ")">>)
        /\ trace = <<"CssColorNotation_from_str", "Hsl_try_from", "Rgb_from_Hsl">>)
       => value = Rgb(Zero, Zero, One)
    /\ (/\ origin = Str(<<"h", "s", "v", "a", "(", "3", "6", "0", ",", " ", "3", "0", "%", ",", " ", "6", "0", "%", ",", " ", "0", ".", "7", ")">>)
        /\ trace = <<"CssColorNotation_from_str", "Hsva_try_from">>)
       => value.h = Int2Rat(360)

\* the format tag and the value tags a colour type is documented to be written with
OwnTags(type) ==
    CASE type \in {"Rgb"} -> <<"Float", "Float", "Float">>
      [] type \in {"Rgba"} -> <<"Float", "Float", "Float", "Percent">>
      [] type \in {"Hsv", "Hsl"} -> <<"Float", "Percent", "Percent">>
      [] type \in {"Hsva", "Hsla"} -> <<"Float", "Percent", "Percent", "Percent">>

CssFroms ==
    {"Css_from_Rgb", "Css_from_Rgba", "Css_from_Hsv", "Css_from_Hsva", "Css_from_Hsl",
     "Css_from_Hsla"}

\* C7: the notation built from a value of each of the six types carries that type's own
\* format tag and the number of values the tag requires, hue as Float, r/g/b as
\* Float(channel * 255), s/v/l/alpha as Percent; an Hsl value renders as "hsl(...".
C7_OwnFormat ==
    /\ (IsColour(origin) /\ Len(trace) = 1 /\ trace[1] \in CssFroms)
       => /\ value.format = origin.type
          /\ Len(value.values) = Len(OwnTags(origin.type))
          /\ \A i \in 1..Len(value.values) :
                /\ value.values[i].tag = OwnTags(origin.type)[i]
                /\ value.values[i].x =
                      IF origin.type \in {"Rgb", "Rgba"} /\ i <= 3
                      THEN Mul(Channels(origin)[i], Int2Rat(255))
                      ELSE Channels(origin)[i]
    /\ (origin.type = "Hsl" /\ trace = <<"Css_from_Hsl", "CssColorNotation_to_string">>)
       => SubSeq(value.s, 1, 4) = <<"h", "s", "l", "(">>

\* the TryFrom of a colour type
OwnTryFrom(type) ==
    CASE type = "Rgb" -> "Rgb_try_from"
      [] type = "Rgba" -> "Rgba_try_from"
      [] type = "Hsv" -> "Hsv_try_from"
      [] type = "Hsva" -> "Hsva_try_from"
      [] type = "Hsl" -> "Hsl_try_from"
      [] type = "Hsla" -> "Hsla_try_from"

\* C8: for each of the six types T and every in-range value c of T, converting c into a
\* notation and that notation back with T::try_from returns Ok(c).
C8_NotationRoundTrip ==
    (/\ IsColour(origin)
     /\ Len(trace) = 2
     /\ trace[1] \in CssFroms
     /\ trace[2] = OwnTryFrom(origin.type))
    => value = origin

\* the number of values an identifier requires
RequiredArity(ident) ==
    IF ident \in {<<"r", "g", "b">>, <<"h", "s", "v">>, <<"h", "s", "l">>} THEN 3 ELSE 4

\* C9: parsing functional notation whose parentheses are present, whose identifier is
\* known and whose segments all parse as numbers succeeds iff the number of values is the
\* identifier's arity (3 for rgb, hsv, hsl; 4 for rgba, hsva, hsla) and otherwise fails
\* with the arity error; the values are never padded or dropped.
C9_Arity ==
    (trace = <<"CssColorNotation_from_str">> /\ WellFormed(origin))
    => IF Len(SegmentsOf(origin)) = RequiredArity(IdentOf(origin))
       THEN /\ value.type = "Css"
            /\ CssColorType_to_string(value.format) = IdentOf(origin)
            /\ value.values =
                  [i \in 1..Len(SegmentsOf(origin)) |-> CssNumber_from_str(SegmentsOf(origin)[i])]
       ELSE value = Err("InvalidCssParams")

\* "rgba(1,2,3)" was parsed and failed with the arity error, and so did a text
\* with more values than its identifier takes
C9_Witness ==
    /\ trace = <<"CssColorNotation_from_str">>
    /\ value = Err("InvalidCssParams")
    /\ origin = Str(<<"r", "g", "b", "a", "(", "1", ",", "2", ",", "3", ")">>)

\* C10: when a parsed rgb/rgba notation is converted to Rgb, a slot written as a bare
\* number n yields channel n/255 and a slot written as p% yields channel p/100, for
\* every n and p, out-of-range ones included (no clamping); "rgb(255,0,0)" and
\* "rgb(100%,0%,0%)" both produce Rgb {1, 0, 0}.
C10_RgbChannels ==
    /\ (/\ trace = <<"CssColorNotation_from_str", "Rgb_try_from">>
        /\ WellFormed(origin)
        /\ IdentOf(origin) \in {<<"r", "g", "b">>, <<"r", "g", "b", "a">>}
        /\ Len(SegmentsOf(origin)) = RequiredArity(IdentOf(origin)))
       => /\ value.type = "Rgb"
          /\ \A i \in 1..3 :
                Channels(value)[i] =
                   IF ends_with(SegmentsOf(origin)[i], "%")
                   THEN Div(Written(SegmentsOf(origin)[i]), Int2Rat(100))
                   ELSE Div(Written(SegmentsOf(origin)[i]), Int2Rat(255))
    /\ (/\ origin \in {Str(<<"r", "g", "b", "(", "2", "5", "5", ",", "0", ",", "0", ")">>),
                       Str(<<"r", "g", "b", "(", "1", "0", "0", "%", ",", "0", "%", ",", "0", "%", ")">>)}
        /\ trace = <<"CssColorNotation_from_str", "Rgb_try_from">>)
       => value = Rgb(One, Zero, Zero)

\* an rgb notation with an out-of-range percentage and a negative number became an Rgb
\* with those channels unclamped
C10_Witness ==
    /\ origin = Str(<<"r", "g", "b", "(", "1", "5", "0", "%", ",", "-", "2", "0", ",", "2", "5", "5", ")">>)
    /\ trace = <<"CssColorNotation_from_str", "Rgb_try_from">>
    /\ value = Rgb(Rat(3, 2), Rat(0 - 20, 255), One)

(***************************************************************************)
(* The conversion graph: From<X> for T for every pair of colour types.     *)
(* `into(target, other)` is T::from(other) for T = target; each arm is the *)
(* body of one impl, and an impl that goes through another type calls the  *)
(* impls it names.                                                         *)
(***************************************************************************)
RECURSIVE into(_, _)
\* the conversion graph with an Hsla::from(Rgba) and an Hsla::from(Hsva) that build the
\* Hsla from the Hsl alone, as Hsla::from(Hsl) does
into_alpha_reset(target, other) ==
    LET pair == <<target, other.type>>
    IN  CASE target = other.type -> other
          \* rgb.rs
          [] pair = <<"Rgb", "Hsv">> -> Rgb_from_Hsv(other)
          [] pair = <<"Rgb", "Hsl">> -> Rgb_from_Hsl(other)
          [] pair = <<"Rgb", "Rgba">> -> Rgb(other.r, other.g, other.b)
          [] pair = <<"Rgb", "Hsva">> -> into("Rgb", into("Hsv", other))
          [] pair = <<"Rgb", "Hsla">> -> into("Rgb", into("Hsl", other))
          \* hsv.rs
          [] pair = <<"Hsv", "Rgb">> -> Hsv_from_Rgb(other)
          [] pair = <<"Hsv", "Hsl">> -> Hsv_from_Hsl(other)
          [] pair = <<"Hsv", "Rgba">> -> into("Hsv", into("Rgb", other))
          [] pair = <<"Hsv", "Hsva">> -> Hsv(other.h, other.s, other.v)
          [] pair = <<"Hsv", "Hsla">> -> into("Hsv", into("Hsl", other))
          \* hsl.rs
          [] pair = <<"Hsl", "Rgb">> -> Hsl_from_Rgb(other)
          [] pair = <<"Hsl", "Hsv">> -> Hsl_from_Hsv(other)
          [] pair = <<"Hsl", "Rgba">> -> into("Hsl", into("Rgb", other))
          [] pair = <<"Hsl", "Hsla">> -> Hsl(other.h, other.s, other.l)
          [] pair = <<"Hsl", "Hsva">> -> into("Hsl", into("Hsv", other))
          \* rgba.rs
          [] pair = <<"Rgba", "Rgb">> -> Rgba_from_Rgb(other)
          [] pair = <<"Rgba", "Hsv">> -> into("Rgba", into("Rgb", other))
          [] pair = <<"Rgba", "Hsl">> -> into("Rgba", into("Rgb", other))
          [] pair \in {<<"Rgba", "Hsva">>, <<"Rgba", "Hsla">>} ->
                LET c == into("Rgb", other) IN Rgba(c.r, c.g, c.b, other.alpha)
          \* hsva.rs
          [] pair = <<"Hsva", "Rgb">> -> into("Hsva", into("Hsv", other))
          [] pair = <<"Hsva", "Hsv">> -> Hsva_from_Hsv(other)
          [] pair = <<"Hsva", "Hsl">> -> into("Hsva", into("Hsv", other))
          [] pair \in {<<"Hsva", "Rgba">>, <<"Hsva", "Hsla">>} ->
                LET c == into("Hsv", other) IN Hsva(c.h, c.s, c.v, other.alpha)
          \* hsla.rs
          [] pair = <<"Hsla", "Rgb">> -> into("Hsla", into("Rgba", other))
          [] pair = <<"Hsla", "Hsv">> -> into("Hsla", into("Hsva", other))
          [] pair = <<"Hsla", "Hsl">> -> Hsla_from_Hsl(other)
          [] pair \in {<<"Hsla", "Rgba">>, <<"Hsla", "Hsva">>} ->
                Hsla_from_Hsl(into("Hsl", other))

into(target, other) ==
    LET pair == <<target, other.type>>
    IN  CASE target = other.type -> other
          \* rgb.rs
          [] pair = <<"Rgb", "Hsv">> -> Rgb_from_Hsv(other)
          [] pair = <<"Rgb", "Hsl">> -> Rgb_from_Hsl(other)
          [] pair = <<"Rgb", "Rgba">> -> Rgb(other.r, other.g, other.b)
          [] pair = <<"Rgb", "Hsva">> -> into("Rgb", into("Hsv", other))
          [] pair = <<"Rgb", "Hsla">> -> into("Rgb", into("Hsl", other))
          \* hsv.rs
          [] pair = <<"Hsv", "Rgb">> -> Hsv_from_Rgb(other)
          [] pair = <<"Hsv", "Hsl">> -> Hsv_from_Hsl(other)
          [] pair = <<"Hsv", "Rgba">> -> into("Hsv", into("Rgb", other))
          [] pair = <<"Hsv", "Hsva">> -> Hsv(other.h, other.s, other.v)
          [] pair = <<"Hsv", "Hsla">> -> into("Hsv", into("Hsl", other))
          \* hsl.rs
          [] pair = <<"Hsl", "Rgb">> -> Hsl_from_Rgb(other)
          [] pair = <<"Hsl", "Hsv">> -> Hsl_from_Hsv(other)
          [] pair = <<"Hsl", "Rgba">> -> into("Hsl", into("Rgb", other))
          [] pair = <<"Hsl", "Hsla">> -> Hsl(other.h, other.s, other.l)
          [] pair = <<"Hsl", "Hsva">> -> into("Hsl", into("Hsv", other))
          \* rgba.rs
          [] pair = <<"Rgba", "Rgb">> -> Rgba_from_Rgb(other)
          [] pair = <<"Rgba", "Hsv">> -> into("Rgba", into("Rgb", other))
          [] pair = <<"Rgba", "Hsl">> -> into("Rgba", into("Rgb", other))
          [] pair \in {<<"Rgba", "Hsva">>, <<"Rgba", "Hsla">>} ->
                LET c == into("Rgb", other) IN Rgba(c.r, c.g, c.b, other.alpha)
          \* hsva.rs
          [] pair = <<"Hsva", "Rgb">> -> into("Hsva", into("Hsv", other))
          [] pair = <<"Hsva", "Hsv">> -> Hsva_from_Hsv(other)
          [] pair = <<"Hsva", "Hsl">> -> into("Hsva", into("Hsv", other))
          [] pair \in {<<"Hsva", "Rgba">>, <<"Hsva", "Hsla">>} ->
                LET c == into("Hsv", other) IN Hsva(c.h, c.s, c.v, other.alpha)
          \* hsla.rs
          [] pair = <<"Hsla", "Rgb">> -> into("Hsla", into("Rgba", other))
          [] pair = <<"Hsla", "Hsv">> -> into("Hsla", into("Hsva", other))
          [] pair = <<"Hsla", "Hsl">> -> Hsla_from_Hsl(other)
          [] pair \in {<<"Hsla", "Rgba">>, <<"Hsla", "Hsva">>} ->
                LET c == into("Hsl", other) IN Hsla(c.h, c.s, c.l, other.alpha)

(***************************************************************************)
(* Color::new (lib.rs) with the number type and the constructors of        *)
(* lib.rs.                                                                 *)
(***************************************************************************)
Integer(x) == [tag |-> "Integer", x |-> x]

Percentage(x) == [tag |-> "Percentage", x |-> x]

UpperLetters ==
    <<"A", "B", "C", "D", "E", "F", "G", "H", "I", "J", "K", "L", "M", "N", "O", "P", "Q",
      "R", "S", "T", "U", "V", "W", "X", "Y", "Z">>

LowerLetters ==
    <<"a", "b", "c", "d", "e", "f", "g", "h", "i", "j", "k", "l", "m", "n", "o", "p", "q",
      "r", "s", "t", "u", "v", "w", "x", "y", "z">>

\* str::to_ascii_lowercase
to_ascii_lowercase(string) ==
    [i \in 1..Len(string) |->
        IF \E k \in 1..26 : UpperLetters[k] = string[i]
        THEN LowerLetters[CHOOSE k \in 1..26 : UpperLetters[k] = string[i]]
        ELSE string[i]]

\* str::starts_with
starts_with(string, prefix) ==
    Len(string) >= Len(prefix) /\ SubSeq(string, 1, Len(prefix)) = prefix

\* the rest of a string after a prefix it starts with
after(string, prefix) == SubSeq(string, Len(prefix) + 1, Len(string))

\* str::parse::<i8>(): an optional sign and decimal digits, within -128..=127
parse_i8(string) ==
    LET signed == Len(string) > 0 /\ (string[1] = "-" \/ string[1] = "+")
        body == IF signed THEN Tail(string) ELSE string
        ok == Len(body) > 0 /\ \A i \in 1..Len(body) : is_ascii_digit(body[i])
        mag == digits_value(body, 0)
        val == IF signed /\ string[1] = "-" THEN 0 - mag ELSE mag
    IN  IF ~ok THEN ParseError
        ELSE IF val < 0 - 128 \/ val > 127 THEN ParseError
        ELSE Int2Rat(val)

\* impl FromStr for CssNumber (lib.rs)
lib_CssNumber_from_str(string) ==
    IF ends_with(string, "%")
    THEN LET x == parse_f64(SubSeq(string, 1, Len(string) - 1))
         IN  IF x = ParseError THEN Err("InvalidCssPercentage") ELSE Percentage(x)
    ELSE IF find(string, ".") > 0
    THEN LET x == parse_f64(string)
         IN  IF x = ParseError THEN Err("InvalidCssFloat") ELSE Float(x)
    ELSE LET x == parse_i8(string)
         IN  IF x = ParseError THEN Err("InvalidCssInteger") ELSE Integer(x)

\* CssNumber::to_degrees (lib.rs)
to_degrees(number) ==
    IF number.tag = "Percentage" THEN Mul(number.x, Int2Rat(360)) ELSE number.x

\* impl From<CssNumber> for f64 (lib.rs)
f64_from_CssNumber(other) ==
    IF other.tag = "Percentage" THEN Div(other.x, Int2Rat(100))
    ELSE Div(other.x, Int2Rat(255))

parse_css_parts(string) ==
    IF Len(string) > 0 /\ string[1] = "(" /\ ends_with(Tail(string), ")")
    THEN LET segments == split(SubSeq(string, 2, Len(string) - 1), ",")
         IN  collect([i \in 1..Len(segments) |-> lib_CssNumber_from_str(segments[i])])
    ELSE Err("MissingParenthesis")

\* f64::clamp(number.into(), 0.0, 1.0)
unit_channel(number) == Clamp(f64_from_CssNumber(number), Zero, One)

\* impl TryFrom<&[CssNumber]> for Rgb
Rgb_try_from_slice(other) ==
    IF Len(other) # 3 THEN Err("InvalidCssParameters")
    ELSE Rgb(unit_channel(other[1]), unit_channel(other[2]), unit_channel(other[3]))

\* impl TryFrom<&[CssNumber]> for Rgba
Rgba_try_from_slice(other) ==
    IF Len(other) # 4 THEN Err("InvalidCssParameters")
    ELSE LET c == Rgb_try_from_slice(SubSeq(other, 1, 3))
         IN  Rgba(c.r, c.g, c.b, unit_channel(other[4]))

\* impl TryFrom<&[CssNumber]> for Hsv
Hsv_try_from_slice(other) ==
    IF Len(other) # 3 THEN Err("InvalidCssParameters")
    ELSE Hsv(Clamp(to_degrees(other[1]), Zero, Int2Rat(360)),
             unit_channel(other[2]), unit_channel(other[3]))

\* impl TryFrom<&[CssNumber]> for Hsva
Hsva_try_from_slice(other) ==
    IF Len(other) # 4 THEN Err("InvalidCssParameters")
    ELSE LET c == Hsv_try_from_slice(SubSeq(other, 1, 3))
         IN  Hsva(c.h, c.s, c.v, unit_channel(other[4]))

\* impl TryFrom<&[CssNumber]> for Hsl
Hsl_try_from_slice(other) ==
    IF Len(other) # 3 THEN Err("InvalidCssParameters")
    ELSE Hsl(Clamp(to_degrees(other[1]), Zero, Int2Rat(360)),
             unit_channel(other[2]), unit_channel(other[3]))

\* impl TryFrom<&[CssNumber]> for Hsla
Hsla_try_from_slice(other) ==
    IF Len(other) # 4 THEN Err("InvalidCssParameters")
    ELSE LET c == Hsl_try_from_slice(SubSeq(other, 1, 3))
         IN  Hsla(c.h, c.s, c.l, unit_channel(other[4]))

\* the prefixes Color::new tries, in the order of its else-if chain, with the type
\* each branch constructs
Prefixes ==
    <<[prefix |-> <<"r", "g", "b">>, kind |-> "Rgb"],
      [prefix |-> <<"r", "g", "b", "a">>, kind |-> "Rgba"],
      [prefix |-> <<"h", "s", "v">>, kind |-> "Hsv"],
      [prefix |-> <<"h", "s", "v", "a">>, kind |-> "Hsva"],
      [prefix |-> <<"h", "s", "l">>, kind |-> "Hsl"],
      [prefix |-> <<"h", "s", "l", "a">>, kind |-> "Hsla"]>>

\* X::try_from(numbers) for the type X of a branch
try_from_slice(kind, numbers) ==
    CASE kind = "Rgb" -> Rgb_try_from_slice(numbers)
      [] kind = "Rgba" -> Rgba_try_from_slice(numbers)
      [] kind = "Hsv" -> Hsv_try_from_slice(numbers)
      [] kind = "Hsva" -> Hsva_try_from_slice(numbers)
      [] kind = "Hsl" -> Hsl_try_from_slice(numbers)
      [] kind = "Hsla" -> Hsla_try_from_slice(numbers)

\* one functional-notation branch of Color::new, before its `.into()`:
\* X::try_from(parse_css_parts(string)?.as_slice())?
new_branch(kind, string) ==
    LET parts == parse_css_parts(string)
    IN  IF IsErr(parts) THEN parts ELSE try_from_slice(kind, parts.v)

\* the hexadecimal branch of Color::new, before its `.into()`
new_hex(hex) ==
    IF ~(\A i \in 1..Len(hex) : is_ascii_hexdigit(hex[i])) THEN Err("InvalidHexChars")
    ELSE IF Len(hex) = 6 THEN Rgb_from_str(hex)
    ELSE IF Len(hex) = 8 THEN Rgba_from_str(hex)
    ELSE Err("InvalidHexLength")

\* Color::new, called on the type `target`: the first branch whose prefix the text starts
\* with is taken, and what it builds is converted into the target
Color_new(target, string0) ==
    LET string == to_ascii_lowercase(remove_spaces(string0))
        matching == {k \in 1..Len(Prefixes) : starts_with(string, Prefixes[k].prefix)}
        first == CHOOSE k \in matching : \A j \in matching : k <= j
        built == IF starts_with(string, <<"#">>) THEN new_hex(after(string, <<"#">>))
                 ELSE IF matching = {} THEN Err("UnknownFormat")
                 ELSE new_branch(Prefixes[first].kind, after(string, Prefixes[first].prefix))
    IN  IF IsErr(built) THEN built ELSE into(target, built)

(***************************************************************************)
(* The Color::new machine: a text, and Color::new called on it for one of  *)
(* the six colour types.                                                   *)
(***************************************************************************)
\* '#'-prefixed texts that are not six or eight hexadecimal digits
OddHexStrings ==
    {<<"#", "1", "2", "3", "4", "5">>,
     <<"#", "1", "2", "3", "4", "5", "6", "7">>,
     <<"#">>,
     <<"#", "G", "G", "G", "G", "G", "G">>,
     <<"#", "1", "2", "3", "4", "5", "x">>,
     <<"#", "x", "y">>,
     <<"#", "1", "2", " ", "3", "4", " ", "a", "B">>}

\* "rgb(n,0,0)"
RedText(n) == <<"r", "g", "b", "(">> \o int_digits(n) \o <<",", "0", ",", "0", ")">>

RedTexts == {RedText(n) : n \in 0..255}

NewInputs == TextInputs \cup HexStrings6 \cup HexStrings8 \cup OddHexStrings \cup RedTexts

InitNew ==
    /\ origin \in {Str(s) : s \in NewInputs}
    /\ value = origin
    /\ trace = <<>>

ColorNew ==
    \E target \in CssColorTypes :
        Apply("Color_new_" \o target, "Str", Color_new(target, value.s))

NextNew == ColorNew

SpecNew == InitNew /\ [][NextNew]_vars

\* the type Color::new was called on
TargetOf(name) ==
    CHOOSE target \in CssColorTypes : name = "Color_new_" \o target

IsColorNew(name) == \E target \in CssColorTypes : name = "Color_new_" \o target

\* [-]?digits[.digits]?[%]?
IsNumberText(seg) ==
    LET unsigned == IF Len(seg) > 0 /\ seg[1] = "-" THEN Tail(seg) ELSE seg
        body == IF ends_with(unsigned, "%") THEN SubSeq(unsigned, 1, Len(unsigned) - 1)
                ELSE unsigned
        dot == find(body, ".")
        whole == IF dot > 0 THEN SubSeq(body, 1, dot - 1) ELSE body
        frac == IF dot > 0 THEN SubSeq(body, dot + 1, Len(body)) ELSE <<"0">>
        digits(ds) == Len(ds) > 0 /\ \A i \in 1..Len(ds) : is_ascii_digit(ds[i])
    IN  digits(whole) /\ digits(frac)

\* identifier, '(', the identifier's number of numbers separated by commas, ')'
Accepted(c) ==
    /\ c.type = "Str"
    /\ OpenAt(c) > 0
    /\ ends_with(TextOf(c), ")")
    /\ IdentOf(c) \in KnownIdents
    /\ Len(SegmentsOf(c)) = RequiredArity(IdentOf(c))
    /\ \A i \in 1..Len(SegmentsOf(c)) : IsNumberText(SegmentsOf(c)[i])

\* the colour the identifier's own constructor of lib.rs builds from the numbers
OwnModel(c) ==
    LET numbers == [i \in 1..Len(SegmentsOf(c)) |-> lib_CssNumber_from_str(SegmentsOf(c)[i])]
        ident == IdentOf(c)
    IN  IF \E i \in 1..Len(numbers) : IsErr(numbers[i]) THEN Err("number")
        ELSE CASE ident = <<"r", "g", "b">> -> Rgb_try_from_slice(numbers)
               [] ident = <<"r", "g", "b", "a">> -> Rgba_try_from_slice(numbers)
               [] ident = <<"h", "s", "v">> -> Hsv_try_from_slice(numbers)
               [] ident = <<"h", "s", "v", "a">> -> Hsva_try_from_slice(numbers)
               [] ident = <<"h", "s", "l">> -> Hsl_try_from_slice(numbers)
               [] ident = <<"h", "s", "l", "a">> -> Hsla_try_from_slice(numbers)

\* C4: Color::new applied to one of the six identifiers, '(', exactly the identifier's
\* number (3, or 4 for rgba, hsva, hsla) of numbers separated by commas, and ')' never
\* returns an error: it returns the colour built by that identifier's own constructor,
\* converted into the type Color::new was called on.
C4_NewAccepts ==
    (Len(trace) = 1 /\ IsColorNew(trace[1]) /\ Accepted(origin))
    => /\ ~IsErr(value)
       /\ ~IsErr(OwnModel(origin))
       /\ value = into(TargetOf(trace[1]), OwnModel(origin))

\* the errors of the number parser of lib.rs
NumberErrors ==
    {Err("InvalidCssInteger"), Err("InvalidCssFloat"), Err("InvalidCssPercentage")}

\* C11: Color::new accepts every number of the form [-]?digits[.digits]?[%]?, never
\* answering such a text with a number-parse error; for every integer n in 0..255,
\* Color::new("rgb(n,0,0)") is Ok and its red channel, as Rgb, is n/255.
C11_NumbersAccepted ==
    (Len(trace) = 1 /\ IsColorNew(trace[1]))
    => /\ Accepted(origin) => value \notin NumberErrors
       /\ \A n \in 0..255 :
            origin = Str(RedText(n))
            => /\ ~IsErr(value)
               /\ TargetOf(trace[1]) = "Rgb" => value = Rgb(Rat(n, 255), Zero, Zero)

(***************************************************************************)
(* The conversion machine over all six types: a colour, and one            *)
(* T::from(colour) for any of the six types T.                             *)
(***************************************************************************)
InitInto ==
    /\ origin \in ColourInputs
    /\ value = origin
    /\ trace = <<>>

Into ==
    \E target \in CssColorTypes :
        /\ trace = <<>>
        /\ Convert("into_" \o target, value.type, into(target, value))

NextInto == Into

SpecInto == InitInto /\ [][NextInto]_vars

IsInto(name) == \E target \in CssColorTypes : name = "into_" \o target

AlphaTypes == {"Rgba", "Hsva", "Hsla"}

\* an alpha-bearing colour with its alpha forgotten
WithoutAlpha(c) ==
    CASE c.type = "Rgba" -> Rgb(c.r, c.g, c.b)
      [] c.type = "Hsva" -> Hsv(c.h, c.s, c.v)
      [] c.type = "Hsla" -> Hsl(c.h, c.s, c.l)

\* the direct conversion between two of Rgb, Hsv, Hsl
Direct(target, c) ==
    CASE target = c.type -> c
      [] target = "Rgb" /\ c.type = "Hsv" -> Rgb_from_Hsv(c)
      [] target = "Rgb" /\ c.type = "Hsl" -> Rgb_from_Hsl(c)
      [] target = "Hsv" /\ c.type = "Rgb" -> Hsv_from_Rgb(c)
      [] target = "Hsv" /\ c.type = "Hsl" -> Hsv_from_Hsl(c)
      [] target = "Hsl" /\ c.type = "Rgb" -> Hsl_from_Rgb(c)
      [] target = "Hsl" /\ c.type = "Hsv" -> Hsl_from_Hsv(c)

\* C12: converting an Rgb, Hsv or Hsl value into Rgba, Hsva or Hsla gives alpha exactly
\* 1.0, whichever types the conversion goes through; converting an Rgba, Hsva or Hsla
\* value into Rgb, Hsv or Hsl gives the channels the conversion gives when the alpha was
\* never there.
C12_AlphaDefault ==
    (Len(trace) = 1 /\ IsInto(trace[1]))
    => /\ (origin.type \notin AlphaTypes /\ value.type \in AlphaTypes)
          => /\ value.alpha = One
             /\ WithoutAlpha(value) = Direct(WithoutAlpha(value).type, origin)
       /\ (origin.type \in AlphaTypes /\ value.type \notin AlphaTypes)
          => value = Direct(value.type, WithoutAlpha(origin))

\* an Hsv colour with a colour in it was converted into Hsla, through Hsva and Hsl
C12_Witness ==
    /\ trace = <<"into_Hsla">>
    /\ origin.type = "Hsv"
    /\ origin.s # Zero
    /\ origin.v # Zero
    /\ value.type = "Hsla"
    /\ value.alpha = One

\* C29: every conversion between two of Rgba, Hsva and Hsla returns the alpha of its
\* input unchanged, and colour channels equal to those of the conversion between the
\* models without alpha applied to the input with its alpha dropped
C29_AlphaKept ==
    (/\ Len(trace) = 1
     /\ IsInto(trace[1])
     /\ origin.type \in AlphaTypes
     /\ value.type \in AlphaTypes
     /\ value.type # origin.type)
    => /\ value.alpha = origin.alpha
       /\ WithoutAlpha(value) = Direct(WithoutAlpha(value).type, WithoutAlpha(origin))

\* a translucent Rgba with a colour in it was converted into Hsla and kept its alpha
C29_Witness ==
    /\ trace = <<"into_Hsla">>
    /\ origin.type = "Rgba"
    /\ origin.alpha \notin {Zero, One}
    /\ origin.r # origin.g
    /\ value.type = "Hsla"
    /\ value.alpha = origin.alpha

\* the characters after the '#' of a text, spaces removed
HexPart(c) == Tail(TextOf(c))

IsHashText(c) == c.type = "Str" /\ Len(TextOf(c)) > 0 /\ TextOf(c)[1] = "#"

\* the colour that six or eight hexadecimal digits write, a byte per digit pair
Written6(t) == Rgb(Rat(PairValue(t, 1), 255), Rat(PairValue(t, 3), 255), Rat(PairValue(t, 5), 255))

Written8(t) ==
    Rgba(Rat(PairValue(t, 1), 255), Rat(PairValue(t, 3), 255), Rat(PairValue(t, 5), 255),
         Rat(PairValue(t, 7), 255))

\* C13: on a text that starts with '#' once its spaces are removed, Color::new returns
\* InvalidHexChars iff some character after the '#' is not a hexadecimal digit, whatever
\* the length; otherwise InvalidHexLength iff the digits are neither 6 nor 8; otherwise
\* Ok with the 6 digits decoded as RGB or the 8 digits as RGBA, in either letter case.
\* "#12345" gives InvalidHexLength.
C13_HexBranch ==
    (Len(trace) = 1 /\ IsColorNew(trace[1]) /\ IsHashText(origin))
    => LET t == HexPart(origin)
       IN  IF \E i \in 1..Len(t) : ~is_ascii_hexdigit(t[i])
           THEN value = Err("InvalidHexChars")
           ELSE IF Len(t) \notin {6, 8} THEN value = Err("InvalidHexLength")
           ELSE IF Len(t) = 6 THEN value = into(TargetOf(trace[1]), Written6(t))
           ELSE value = into(TargetOf(trace[1]), Written8(t))

\* the format identifier as Color::new reads it, in lower case
LowerIdent(c) == to_ascii_lowercase(IdentOf(c))

\* C14: on a text without '#' prefix, Color::new returns UnknownFormat whenever the
\* format identifier (the text before the first '(') is not exactly one of rgb, rgba,
\* hsv, hsva, hsl, hsla, even when it begins with one of those names, and never returns
\* UnknownFormat when the identifier is one of the six; "notacolor(1,2,3)" gives
\* UnknownFormat.
C14_UnknownFormat ==
    (Len(trace) = 1 /\ IsColorNew(trace[1]) /\ ~IsHashText(origin) /\ OpenAt(origin) > 0)
    => (value = Err("UnknownFormat")) <=> (LowerIdent(origin) \notin KnownIdents)

\* a text with the letters of its format identifier in lower case
LowerIdentText(c) ==
    IF OpenAt(c) = 0 THEN TextOf(c)
    ELSE LowerIdent(c) \o SubSeq(TextOf(c), OpenAt(c), Len(TextOf(c)))

\* C15: parsing functional notation does not depend on the letter case of the format
\* identifier: a text whose lower-case-identifier form parses to a notation n, "RGB(1,2,3)"
\* for "rgb(1,2,3)", parses to n as well.
C15_IdentCase ==
    (trace = <<"CssColorNotation_from_str">>
     /\ ~IsErr(CssColorNotation_from_str(LowerIdentText(origin))))
    => value = CssColorNotation_from_str(LowerIdentText(origin))

(***************************************************************************)
(* Binary64 arithmetic.  Where a claim compares a number with the number   *)
(* read back from its text, the rounding of f64 decides the answer, so the *)
(* number functions of css.rs are also given on binary64 values: a sign, a *)
(* 53-bit significand and an exponent, value = m * 2^e.  The significand   *)
(* is a natural number in limbs of 10 bits, least significant first.       *)
(* Subnormal numbers, infinities and NaN are outside the sampled range.    *)
(***************************************************************************)
\* a natural number without leading zero limbs
RECURSIVE BNorm(_)
BNorm(a) == IF a # <<>> /\ a[Len(a)] = 0 THEN BNorm(SubSeq(a, 1, Len(a) - 1)) ELSE a

RECURSIVE BFromInt(_)
BFromInt(n) == IF n = 0 THEN <<>> ELSE <<n % 1024>> \o BFromInt(n \div 1024)

RECURSIVE BToInt(_)
BToInt(a) == IF a = <<>> THEN 0 ELSE a[1] + 1024 * BToInt(Tail(a))

\* a * k + carry, for k <= 2^20
RECURSIVE BMulSmall(_, _, _)
BMulSmall(a, k, carry) ==
    IF a = <<>> THEN BFromInt(carry)
    ELSE LET t == a[1] * k + carry
         IN  <<t % 1024>> \o BMulSmall(Tail(a), k, t \div 1024)

\* quotient and remainder of a by k, for k <= 2^20
RECURSIVE BDivRem(_, _)
BDivRem(a, k) ==
    IF a = <<>> THEN [q |-> <<>>, r |-> 0]
    ELSE LET hi == BDivRem(Tail(a), k)
             t == hi.r * 1024 + a[1]
         IN  [q |-> <<t \div k>> \o hi.q, r |-> t % k]

RECURSIVE IntBitLen(_)
IntBitLen(n) == IF n = 0 THEN 0 ELSE 1 + IntBitLen(n \div 2)

BBitLen(a) == IF a = <<>> THEN 0 ELSE 10 * (Len(a) - 1) + IntBitLen(a[Len(a)])

\* a * 2^s
RECURSIVE BShl(_, _)
BShl(a, s) ==
    IF a = <<>> \/ s = 0 THEN a
    ELSE IF s >= 10 THEN <<0>> \o BShl(a, s - 10)
    ELSE BMulSmall(a, 2 ^ s, 0)

\* a / 2^t rounded down, with whether a non-zero bit was dropped
RECURSIVE BShrSticky(_, _, _)
BShrSticky(a, t, sticky) ==
    IF t = 0 \/ a = <<>> THEN [q |-> a, sticky |-> sticky]
    ELSE IF t >= 10 THEN BShrSticky(Tail(a), t - 10, sticky \/ a[1] # 0)
    ELSE LET h == BDivRem(a, 2 ^ t)
         IN  [q |-> BNorm(h.q), sticky |-> sticky \/ h.r # 0]

\* a / 2^t rounded to the nearest integer, ties to even; `sticky` tells that a is itself
\* the integer part of a number with a non-zero fraction
BShrRound(a, t, sticky) ==
    IF t = 0 THEN a
    ELSE LET first == BShrSticky(a, t - 1, sticky)
             last == BDivRem(first.q, 2)
             m == BNorm(last.q)
             odd == m # <<>> /\ m[1] % 2 = 1
         IN  IF last.r = 1 /\ (first.sticky \/ odd) THEN BMulSmall(m, 1, 1) ELSE m

\* F of an expression that is evaluated once, before F is
Once(F(_), e) == CHOOSE r \in {F(v) : v \in {e}} : TRUE

\* the binary64 of sign, significand q and exponent e, for a q of 55 bits or more; `more`
\* tells that q is the integer part of a number with a non-zero fraction
F64OfQuotient(sign, q, more, e) ==
    Once(LAMBDA m : IF BBitLen(m) = 54
                    THEN [sign |-> sign, m |-> BNorm(BDivRem(m, 2).q), e |-> e + BBitLen(q) - 52]
                    ELSE [sign |-> sign, m |-> m, e |-> e + BBitLen(q) - 53],
         BShrRound(q, BBitLen(q) - 53, more))

\* the binary64 value nearest to (n / d) * 2^e, ties to even, for a natural number n in
\* limbs and 0 < d <= 2^20, with n shifted left by s bits before the division
F64RoundNorm(sign, n, d, e, s) ==
    Once(LAMBDA qr : Once(LAMBDA q : F64OfQuotient(sign, q, qr.r # 0, e - s), BNorm(qr.q)),
         BDivRem(BShl(n, s), d))

\* the binary64 value nearest to (n / d) * 2^e, ties to even, for a natural number n in
\* limbs and 0 < d <= 2^20; sign 1 is negative
F64Round(sign, n0, d, e) ==
    Once(LAMBDA n : IF n = <<>> THEN [sign |-> sign, m |-> <<>>, e |-> 0]
                    ELSE F64RoundNorm(sign, n, d, e,
                                      IF 56 + IntBitLen(d) > BBitLen(n)
                                      THEN 56 + IntBitLen(d) - BBitLen(n) ELSE 0),
         BNorm(n0))

\* the f64 of a decimal literal: digits / 10^places, for places <= 6
F64(sign, digits, places) == F64Round(sign, BFromInt(digits), pow10(places), 0)

\* x * k and x / k in binary64, for an integer 0 < k <= 2^20 (k itself is exact)
f64_mul(x, k) == F64Round(x.sign, BMulSmall(x.m, k, 0), 1, x.e)

f64_div(x, k) == F64Round(x.sign, x.m, k, x.e)

\* the nearest integer of |x| * 1000, ties to even: the digits format!("{:.3}") prints
f64_thousandths(x) ==
    LET n == BMulSmall(x.m, 1000, 0)
    IN  BToInt(IF x.e >= 0 THEN BShl(n, x.e) ELSE BShrRound(n, 0 - x.e, FALSE))

\* str::parse::<f64>() on decimal text, to the nearest binary64
f64_parse(string) ==
    LET signed == Len(string) > 0 /\ (string[1] = "-" \/ string[1] = "+")
        body == IF signed THEN Tail(string) ELSE string
        dot == find(body, ".")
        int == IF dot = 0 THEN body ELSE SubSeq(body, 1, dot - 1)
        frac == IF dot = 0 THEN <<>> ELSE SubSeq(body, dot + 1, Len(body))
        ok == /\ Len(int) + Len(frac) > 0
              /\ \A i \in 1..Len(int) : is_ascii_digit(int[i])
              /\ \A i \in 1..Len(frac) : is_ascii_digit(frac[i])
    IN  IF ~ok THEN ParseError
        ELSE F64(IF signed /\ string[1] = "-" THEN 1 ELSE 0,
                 digits_value(int \o frac, 0), Len(frac))

\* a number parser with one error kind for both contexts
CssNumber_from_str_one_error(string) ==
    IF ends_with(string, "%")
    THEN LET x == f64_parse(SubSeq(string, 1, Len(string) - 1))
         IN  IF x = ParseError THEN Err("InvalidCssFloat") ELSE Percent(f64_div(x, 100))
    ELSE LET x == f64_parse(string)
         IN  IF x = ParseError THEN Err("InvalidCssFloat") ELSE Float(x)

\* impl FromStr for CssNumber, in binary64
CssNumber_from_str_f64(string) ==
    IF ends_with(string, "%")
    THEN LET x == f64_parse(SubSeq(string, 1, Len(string) - 1))
         IN  IF x = ParseError THEN Err("InvalidCssPercent") ELSE Percent(f64_div(x, 100))
    ELSE LET x == f64_parse(string)
         IN  IF x = ParseError THEN Err("InvalidCssFloat") ELSE Float(x)

\* a nice string that keeps the zeros of the fraction
float_to_nice_string_untrimmed(float) ==
    format_thousandths(float.sign = 1, f64_thousandths(float))

\* float_to_nice_string, in binary64
float_to_nice_string_f64(float) ==
    trim_end_matches(
        trim_end_matches(format_thousandths(float.sign = 1, f64_thousandths(float)), "0"),
        ".")

\* impl Display for CssNumber, in binary64
CssNumber_to_string_f64(number) ==
    IF number.tag = "Percent"
    THEN float_to_nice_string_f64(f64_mul(number.x, 100)) \o <<"%">>
    ELSE float_to_nice_string_f64(number.x)

\* impl FromStr and impl Display for CssColorNotation, in binary64
CssColorNotation_from_str_f64(string0) == parse_notation(CssNumber_from_str_f64, string0)

CssColorNotation_to_string_f64(this) == display_notation(CssNumber_to_string_f64, this)

(***************************************************************************)
(* The number machine: one number, parsed by CssNumber::from_str and       *)
(* rendered by the Display of CssNumber (css.rs), in binary64.             *)
(***************************************************************************)
\* a CssNumber as a value of the machine
Number(n) == [type |-> "Number", n |-> n]

\* integer parts and fractional parts the sampled segments are built from
WholeSamples ==
    <<<<>>, <<"0">>, <<"9", "9">>, <<"1", "0", "0">>, <<"2", "5", "5">>, <<"x">>, <<"1">>>>

FracSamples ==
    <<<<>>, <<".", "5">>, <<".", "9", "9", "9">>, <<".", "9", "9", "9", "4">>,
      <<".", "9", "9", "9", "6">>, <<".">>, <<".", "x">>, <<".", "9">>, <<".", "1", "0">>>>

\* how many of WholeSamples and of FracSamples the segments are drawn from
NumWholes == 6

NumFracs == 8

\* a written negative zero is left out: whether the sign of a zero is printed depends on
\* the version of the standard library
NumberTexts ==
    {t \in {sign \o (WholeSamples[w] \o (FracSamples[f] \o pct)) :
                sign \in {<<>>, <<"-">>}, w \in 1..NumWholes, f \in 1..NumFracs,
                pct \in {<<>>, <<"%">>}} :
        ~(Len(t) > 0 /\ t[1] = "-" /\ Written(t) = Zero)}

\* decimal literals of the sampled numbers: digits / 10^places.  The first eleven are
\* the literals of test_float_to_nice_string and test_display_css_number, without the
\* two cases those tests ignore (99.9995 and 0.999995).
DecimalSamples ==
    <<[digits |-> 99, places |-> 0], [digits |-> 999, places |-> 1],
      [digits |-> 99999, places |-> 3], [digits |-> 999994, places |-> 4],
      [digits |-> 999996, places |-> 4], [digits |-> 990, places |-> 3],
      [digits |-> 999, places |-> 3], [digits |-> 99999, places |-> 5],
      [digits |-> 999994, places |-> 6], [digits |-> 999996, places |-> 6],
      [digits |-> 100, places |-> 0], [digits |-> 0, places |-> 0],
      [digits |-> 3, places |-> 1], [digits |-> 95, places |-> 2],
      [digits |-> 1205, places |-> 1], [digits |-> 7, places |-> 5],
      [digits |-> 2405, places |-> 1]>>

\* how many of DecimalSamples the numbers are drawn from
NumDecimals == 16

NumberInputs ==
    {[tag |-> tag, x |-> F64(sign, DecimalSamples[i].digits, DecimalSamples[i].places)] :
        tag \in {"Float", "Percent"}, sign \in {0, 1},
        i \in {k \in 1..NumDecimals : DecimalSamples[k].digits # 0}}
    \cup {Float(F64(0, 0, 0)), Percent(F64(0, 0, 0))}

InitNum ==
    /\ origin \in {Str(t) : t \in NumberTexts} \cup {Number(n) : n \in NumberInputs}
    /\ value = origin
    /\ trace = <<>>

ParseNumber ==
    Apply("CssNumber_from_str", "Str",
          LET number == CssNumber_from_str_f64(value.s)
          IN  IF IsErr(number) THEN number ELSE Number(number))

DisplayNumber ==
    Apply("CssNumber_to_string", "Number", Str(CssNumber_to_string_f64(value.n)))

NextNum == ParseNumber \/ DisplayNumber

SpecNum == InitNum /\ [][NextNum]_vars

\* a text that writes a decimal number: an optional sign, digits and at most one '.',
\* with a digit somewhere
Numeric(body) ==
    LET signed == Len(body) > 0 /\ body[1] \in {"-", "+"}
        u == IF signed THEN Tail(body) ELSE body
        dots == {i \in 1..Len(u) : u[i] = "."}
    IN  /\ Cardinality(dots) <= 1
        /\ \A i \in (1..Len(u)) \ dots : is_ascii_digit(u[i])
        /\ Len(u) > Cardinality(dots)

\* the f64 such a text writes
NumericValue(body) ==
    LET signed == Len(body) > 0 /\ body[1] \in {"-", "+"}
        u == IF signed THEN Tail(body) ELSE body
        dots == {i \in 1..Len(u) : u[i] = "."}
        places == IF dots = {} THEN 0 ELSE Len(u) - (CHOOSE i \in dots : TRUE)
    IN  F64(IF signed /\ body[1] = "-" THEN 1 ELSE 0,
            digits_value(SelectSeq(u, is_ascii_digit), 0), places)

Rendered(number) == IF number.tag = "Percent" THEN f64_mul(number.x, 100) ELSE number.x

\* a decimal text in its shortest form: no zero at the end of a fraction, no '.' at the
\* end, and an integer part of at least one digit with no zero in front of another digit
Shortest(body) ==
    LET u == IF Len(body) > 0 /\ body[1] = "-" THEN Tail(body) ELSE body
        dot == find(u, ".")
        int == IF dot = 0 THEN u ELSE SubSeq(u, 1, dot - 1)
    IN  /\ Numeric(body)
        /\ Len(int) > 0
        /\ Len(int) > 1 => int[1] # "0"
        /\ dot # 0 => u[Len(u)] \notin {"0", "."}

\* what the display of the literal digits / 10^places as a Float was
NiceOf(digits, places, text) ==
    (origin = Number(Float(F64(0, digits, places)))) => value = Str(text)

CanonSamples ==
    <<<<"0">>, <<"9", "9", ".", "9">>, <<"5", "0", "%">>, <<"9", "9", ".", "9", "%">>,
      <<"-", "2", "0">>, <<"1", "2", "0", ".", "5">>, <<"7", "5", ".", "5", "%">>,
      <<"1", "0", "0", "%">>, <<"0", ".", "3">>, <<"9", "9", ".", "9", "9", "9", "%">>,
      <<"0", ".", "3", "%">>, <<"-", "2", "0", ".", "5", "%">>, <<"2", "5", "5">>>>

\* how many of CanonSamples the canonical strings are built from
NumCanon == 12

\* the canonical text of a notation: lowercase identifier, values separated by ", "
Canon(format, numbers) ==
    CssColorType_to_string(format) \o <<"(">> \o join(numbers, <<",", " ">>) \o <<")">>

\* the last values of every sampled notation, to the arity of the format
Filler(format, a, b, third, alpha) ==
    IF arity(format) = 3 THEN <<a, b, third>> ELSE <<a, b, third, alpha>>

CanonStrings ==
    {Canon(format, Filler(format, CanonSamples[i], CanonSamples[j],
                          <<"0", ".", "5">>, <<"5", "0", "%">>)) :
        format \in CssColorTypes, i \in 1..NumCanon, j \in 1..NumCanon}

\* numbers whose display has at most three decimals: a Float of at most three decimal
\* places, a Percent of at most five
NoteNumbers ==
    {n \in NumberInputs :
        \E i \in 1..NumDecimals :
            /\ n.x \in {F64(sign, DecimalSamples[i].digits, DecimalSamples[i].places) :
                            sign \in {0, 1}}
            /\ DecimalSamples[i].places <= (IF n.tag = "Percent" THEN 5 ELSE 3)}

NoteInputs ==
    {CssColorNotation(format, Filler(format, a, IF same THEN a ELSE Float(F64(0, 3, 1)),
                                     Float(F64(0, 5, 1)), Percent(F64(0, 5, 1)))) :
        format \in CssColorTypes, a \in NoteNumbers, same \in BOOLEAN}

InitNote ==
    /\ origin \in {Str(t) : t \in CanonStrings \cup TextInputs} \cup NoteInputs
    /\ value = origin
    /\ trace = <<>>

ParseNote ==
    Apply("CssColorNotation_from_str", "Str", CssColorNotation_from_str_f64(value.s))

DisplayNote ==
    Apply("CssColorNotation_to_string", "Css", CssColorNotation_to_string_f64(value))

NextNote == ParseNote \/ DisplayNote

SpecNote == InitNote /\ [][NextNote]_vars

\* C17: parsing and rendering a notation are inverse to each other on canonical text:
\* rendering the result of parsing a canonical string returns the string, and parsing
\* the rendering of a notation whose values display with at most three decimals returns
\* the notation, every entry with its Float or Percent tag.
C17_TextRoundTrip ==
    /\ (/\ trace = <<"CssColorNotation_from_str", "CssColorNotation_to_string">>
        /\ origin.s \in CanonStrings)
       => value = origin
    /\ (trace = <<"CssColorNotation_to_string", "CssColorNotation_from_str">>)
       => value = origin

(***************************************************************************)
(* The packed machine: a u32 and the From<u32> / Into<u32> conversions of  *)
(* Rgb and Rgba (rgb.rs, rgba.rs).                                         *)
(***************************************************************************)
\* a u32 as a value of the machine: its four bytes, most significant first
U32(int) == [type |-> "U32", int |-> int]

\* `int as u8`: the low byte of a u32
u32_as_u8(int) == int[4]

\* impl From<u32> for Rgb
Rgb_from_u32(int) ==
    LET r == u32_as_u8(shr8(shr8(shr8(int))))
        g == u32_as_u8(shr8(shr8(int)))
        b == u32_as_u8(shr8(int))
    IN  Rgb_from_u8x3(<<r, g, b>>)

\* From<u32> for Rgba reading the alpha from the high byte
Rgba_from_u32_argb(int) ==
    LET alpha == u32_as_u8(shr8(shr8(shr8(int))))
        r == u32_as_u8(shr8(shr8(int)))
        g == u32_as_u8(shr8(int))
        b == u32_as_u8(int)
    IN  Rgba_from_u8x4(<<r, g, b, alpha>>)

\* impl From<u32> for Rgba
Rgba_from_u32(int) ==
    LET r == u32_as_u8(shr8(shr8(shr8(int))))
        g == u32_as_u8(shr8(shr8(int)))
        b == u32_as_u8(shr8(int))
        alpha == u32_as_u8(int)
    IN  Rgba_from_u8x4(<<r, g, b, alpha>>)

InitPacked ==
    /\ origin \in {U32(<<a, b, c, d>>) : a \in Bytes, b \in Bytes, c \in Bytes, d \in Bytes}
    /\ value = origin
    /\ trace = <<>>

RgbFromU32 == Apply("Rgb_from_u32", "U32", Rgb_from_u32(value.int))

RgbaFromU32 == Apply("Rgba_from_u32", "U32", Rgba_from_u32(value.int))

U32FromRgb == Apply("u32_from_Rgb", "Rgb", U32(u32_from_Rgb(value)))

U32FromRgba == Apply("u32_from_Rgba", "Rgba", U32(u32_from_Rgba(value)))

NextPacked ==
    \/ RgbFromU32
    \/ RgbaFromU32
    \/ U32FromRgb
    \/ U32FromRgba

SpecPacked == InitPacked /\ [][NextPacked]_vars

\* C19: for every 32-bit n, Rgba::from(n) has r, g, b and alpha equal to bytes 3, 2, 1
\* and 0 of n divided by 255 and u32::from of it is n again; Rgb::from(n) packs back to
\* (r << 24) | (g << 16) | (b << 8), which is n with its low 8 bits cleared.
C19_PackedLayout ==
    LET n == origin.int
    IN  /\ (trace = <<"Rgba_from_u32">>)
           => value = Rgba(Rat(n[1], 255), Rat(n[2], 255), Rat(n[3], 255), Rat(n[4], 255))
        /\ (trace = <<"Rgba_from_u32", "u32_from_Rgba">>) => value = origin
        /\ (trace = <<"Rgb_from_u32">>)
           => value = Rgb(Rat(n[1], 255), Rat(n[2], 255), Rat(n[3], 255))
        /\ (trace = <<"Rgb_from_u32", "u32_from_Rgb">>)
           => value = U32(<<n[1], n[2], n[3], 0>>)

\* a u32 of four different bytes went to Rgba and back
C19_Witness ==
    /\ trace = <<"Rgba_from_u32", "u32_from_Rgba">>
    /\ Cardinality({origin.int[i] : i \in 1..4}) = 4
    /\ value = origin

(***************************************************************************)
(* The encoding machine: an Rgb or Rgba with channels inside and outside   *)
(* [0, 1], and its hexadecimal encoding.                                   *)
(***************************************************************************)
\* channels the encoded colours are built from: n / d
ChannelSamples ==
    <<[n |-> 0, d |-> 1], [n |-> 3, d |-> 2], [n |-> 0 - 1, d |-> 2], [n |-> 1, d |-> 1],
      [n |-> 128, d |-> 255], [n |-> 1, d |-> 255], [n |-> 0 - 1, d |-> 255],
      [n |-> 256, d |-> 255], [n |-> 1, d |-> 3]>>

\* how many of ChannelSamples the colours are drawn from
NumChannels == 6

Channel == {Rat(ChannelSamples[i].n, ChannelSamples[i].d) : i \in 1..NumChannels}

InitEncode ==
    /\ origin \in {Rgb(r, g, b) : r \in Channel, g \in Channel, b \in Channel}
                  \cup {Rgba(r, g, b, a) : r \in Channel, g \in Channel, b \in Channel,
                                           a \in Channel}
    /\ value = origin
    /\ trace = <<>>

NextEncode == RgbDisplay \/ RgbaHex

SpecEncode == InitEncode /\ [][NextEncode]_vars

\* the two upper-case digits of round(channel * 255) clamped into 0..255
DigitPair(channel) ==
    LET k == round(Mul(channel, Int2Rat(255)))
        byte == IF k < 0 THEN 0 ELSE IF k > 255 THEN 255 ELSE k
    IN  <<UpperHex[(byte \div 16) + 1], UpperHex[(byte % 16) + 1]>>

\* C20: every Rgb and Rgba, channels outside [0, 1] included, encodes as '#' followed
\* by exactly 6 (Rgb) or 8 (Rgba) upper-case hexadecimal digits, each pair being
\* round(channel * 255) clamped into 0..255 and zero-padded: channel 0 is "00", a channel
\* above 1 is "FF" and a negative channel is "00".
C20_HexEncode ==
    /\ (trace = <<"Rgb_to_string">>)
       => /\ value = Str(<<"#">> \o DigitPair(origin.r) \o DigitPair(origin.g)
                               \o DigitPair(origin.b))
          /\ Len(value.s) = 7
    /\ (trace = <<"Rgba_hex">>)
       => /\ value = Str(<<"#">> \o DigitPair(origin.r) \o DigitPair(origin.g)
                               \o DigitPair(origin.b) \o DigitPair(origin.alpha))
          /\ Len(value.s) = 9
    /\ (trace \in {<<"Rgb_to_string">>, <<"Rgba_hex">>})
       => /\ origin.r = Zero => SubSeq(value.s, 2, 3) = <<"0", "0">>
          /\ Less(One, origin.r) => SubSeq(value.s, 2, 3) = <<"F", "F">>
          /\ Less(origin.r, Zero) => SubSeq(value.s, 2, 3) = <<"0", "0">>

\* an Rgba with red above 1, a negative green and blue 0 came out as "#FF0000FF"
C20_Witness ==
    /\ trace = <<"Rgba_hex">>
    /\ Less(One, origin.r) /\ Less(origin.g, Zero) /\ origin.b = Zero
    /\ value = Str(<<"#", "F", "F", "0", "0", "0", "0", "F", "F">>)

(***************************************************************************)
(* Binary64 arithmetic between two numbers, for the conversions between    *)
(* the colour models: +, -, *, /, comparisons, max and min, with the       *)
(* infinities and NaN.  An infinity has the exponent 1024 and no           *)
(* significand, a NaN the exponent 1024 and a significand, as in the       *)
(* encoding of binary64.  Subnormal results and overflow are outside the   *)
(* sampled range.                                                          *)
(***************************************************************************)
RECURSIVE BAdd(_, _, _)
BAdd(a, b, carry) ==
    IF a = <<>> /\ b = <<>> THEN BFromInt(carry)
    ELSE LET x == IF a = <<>> THEN 0 ELSE a[1]
             y == IF b = <<>> THEN 0 ELSE b[1]
             t == x + y + carry
         IN  <<t % 1024>> \o BAdd(IF a = <<>> THEN a ELSE Tail(a),
                                   IF b = <<>> THEN b ELSE Tail(b), t \div 1024)

\* a - b - borrow for a >= b + borrow
RECURSIVE BSub(_, _, _)
BSub(a, b, borrow) ==
    IF a = <<>> THEN <<>>
    ELSE LET y == IF b = <<>> THEN 0 ELSE b[1]
             t == a[1] - y - borrow
         IN  <<IF t < 0 THEN t + 1024 ELSE t>>
             \o BSub(Tail(a), IF b = <<>> THEN b ELSE Tail(b), IF t < 0 THEN 1 ELSE 0)

\* a < b, for two naturals of as many limbs as each other below the first call
RECURSIVE BLess(_, _)
BLess(a, b) ==
    IF Len(a) # Len(b) THEN Len(a) < Len(b)
    ELSE IF a = <<>> THEN FALSE
    ELSE IF a[Len(a)] # b[Len(b)] THEN a[Len(a)] < b[Len(b)]
    ELSE BLess(SubSeq(a, 1, Len(a) - 1), SubSeq(b, 1, Len(b) - 1))

RECURSIVE BMul(_, _)
BMul(a, b) ==
    IF a = <<>> \/ b = <<>> THEN <<>>
    ELSE BAdd(BMulSmall(a, b[1], 0),
              IF Len(b) = 1 THEN <<>> ELSE <<0>> \o BMul(a, Tail(b)), 0)

\* one limb of a long division: the quotient of rr by d, for rr < d * 1024 and a d of two
\* limbs or more whose last limb is 512 or more, estimated from the leading limbs
quotient_limb(rr, d) ==
    LET len == Len(d)
        at(i) == IF i <= Len(rr) THEN rr[i] ELSE 0
        top == (at(len + 1) * 1024 + at(len)) * 1024 + at(len - 1)
        guess == top \div (d[len] * 1024 + d[len - 1])
        estimate == IF guess > 1023 THEN 1023 ELSE guess
    IN  IF BLess(rr, BNorm(BMulSmall(d, estimate, 0))) THEN estimate - 1 ELSE estimate

\* one step of the long division by d: the quotient q gains the limb of the partial
\* remainder rr, and what is left of rr is the new remainder
BDivStep(d, rr, q) ==
    Once(LAMBDA limb : [q |-> <<limb>> \o q, r |-> BNorm(BSub(rr, BMulSmall(d, limb, 0), 0))],
         quotient_limb(rr, d))

\* quotient and remainder of n by d, limb by limb from the most significant: the limbs
\* of n above the hi-th have given the quotient and the remainder qr, and the limbs from
\* the hi-th down to the lo-th are taken in, the upper half of them first
RECURSIVE BDivLong(_, _, _, _, _)
BDivLong(n, d, hi, lo, qr) ==
    IF hi = lo THEN Once(LAMBDA rr : BDivStep(d, rr, qr.q), BNorm(<<n[hi]>> \o qr.r))
    ELSE Once(LAMBDA upper : BDivLong(n, d, (hi + lo + 1) \div 2 - 1, lo, upper),
              BDivLong(n, d, hi, (hi + lo + 1) \div 2, qr))

\* the binary64 nearest to (n / d) * 2^e, ties to even, for n and d without leading zero
\* limbs
F64QuotNorm(sign, n, d, e) ==
    LET s == IF 56 + BBitLen(d) > BBitLen(n) THEN 56 + BBitLen(d) - BBitLen(n) ELSE 0
        full == (10 - (BBitLen(d) % 10)) % 10
    IN  IF n = <<>> THEN [sign |-> sign, m |-> <<>>, e |-> 0]
        ELSE Once(LAMBDA qr : F64OfQuotient(sign, BNorm(qr.q), qr.r # <<>>, e - s),
                  Once(LAMBDA shifted :
                           Once(LAMBDA divisor :
                                    BDivLong(shifted, divisor, Len(shifted), 1,
                                             [q |-> <<>>, r |-> <<>>]),
                                BShl(d, full)),
                       BShl(n, s + full)))

\* the binary64 nearest to (n / d) * 2^e, ties to even
F64Quot(sign, n0, d0, e) ==
    Once(LAMBDA n : Once(LAMBDA d : F64QuotNorm(sign, n, d, e), BNorm(d0)), BNorm(n0))

NaN == [sign |-> 0, m |-> <<1>>, e |-> 1024]

Inf(sign) == [sign |-> sign, m |-> <<>>, e |-> 1024]

is_nan(x) == x.e = 1024 /\ x.m # <<>>

is_infinite(x) == x.e = 1024 /\ x.m = <<>>

is_zero(x) == x.e # 1024 /\ x.m = <<>>


\* unary minus
f64_neg(x) == IF is_nan(x) THEN x ELSE [x EXCEPT !.sign = 1 - x.sign]

\* f64::abs
f64_abs(x) == IF is_nan(x) THEN x ELSE [x EXCEPT !.sign = 0]

\* the operations of binary64 and the conversions computed with them, by name: defined
\* below, after the conversions
RECURSIVE f64_op(_, _, _)

\* the binary64 of an integer
f64_of(k) == f64_op("of", k, k)

\* x + y
f64_add(x, y) == f64_op("add", x, y)

\* x - y
f64_sub(x, y) == f64_op("sub", x, y)

\* x * y
f64_times(x, y) == f64_op("times", x, y)

\* x / y
f64_over(x, y) == f64_op("over", x, y)

\* |x| < |y| for two numbers that are not NaN: the significands of finite numbers other
\* than zero have 53 bits, so the exponents decide first
magnitude_lt(x, y) ==
    IF is_zero(y) THEN FALSE
    ELSE IF is_zero(x) THEN TRUE
    ELSE x.e < y.e \/ (x.e = y.e /\ BLess(x.m, y.m))

\* x < y: never for a NaN
f64_lt(x, y) ==
    IF is_nan(x) \/ is_nan(y) THEN FALSE
    ELSE IF x.sign # y.sign THEN x.sign = 1 /\ ~(is_zero(x) /\ is_zero(y))
    ELSE IF x.sign = 0 THEN magnitude_lt(x, y)
    ELSE magnitude_lt(y, x)

\* x == y: never for a NaN, always for two zeros
f64_eq(x, y) ==
    IF is_nan(x) \/ is_nan(y) THEN FALSE
    ELSE IF is_zero(x) /\ is_zero(y) THEN TRUE
    ELSE x = y

\* f64::max and f64::min: the other number when one is a NaN
f64_max(x, y) ==
    IF is_nan(x) THEN y ELSE IF is_nan(y) THEN x ELSE IF f64_lt(x, y) THEN y ELSE x

f64_min(x, y) ==
    IF is_nan(x) THEN y ELSE IF is_nan(y) THEN x ELSE IF f64_lt(y, x) THEN y ELSE x

\* 2^k
pow2(k) == [sign |-> 0, m |-> BShl(<<1>>, 52), e |-> k - 52]

\* the low t bits of a natural number
RECURSIVE BLowBits(_, _)
BLowBits(a, t) ==
    IF a = <<>> \/ t = 0 THEN <<>>
    ELSE IF t >= 10 THEN <<a[1]>> \o BLowBits(Tail(a), t - 10)
    ELSE <<a[1] % (2 ^ t)>>

\* x % 2.0: the remainder of the division truncated towards zero, which is exact
f64_rem2(x) ==
    IF is_nan(x) \/ is_infinite(x) THEN NaN
    ELSE IF is_zero(x) \/ x.e >= 1 THEN [sign |-> x.sign, m |-> <<>>, e |-> 0]
    ELSE IF x.e < 0 - 53 THEN x
    ELSE F64Round(x.sign, BLowBits(x.m, 1 - x.e), 1, x.e)

\* (a..b).contains(&x) for a range of f64
f64_in_range(a, b, x) == (f64_lt(a, x) \/ f64_eq(a, x)) /\ f64_lt(x, b)

(***************************************************************************)
(* The conversions between Rgb, Hsv and Hsl in binary64 (types/hsv.rs,     *)
(* types/hsl.rs, types/rgb.rs).                                            *)
(***************************************************************************)
\* the arm of `match ()` that computes the hue in From<Rgb> for Hsv and for Hsl
hue_arm(other) ==
    LET xmax == f64_max(other.r, f64_max(other.g, other.b))
        xmin == f64_min(other.r, f64_min(other.g, other.b))
        c == f64_sub(xmax, xmin)
    IN  IF f64_eq(c, f64_of(0)) THEN "zero"
        ELSE IF f64_eq(xmax, other.r) THEN "r"
        ELSE IF f64_eq(xmax, other.g) THEN "g"
        ELSE IF f64_eq(xmax, other.b) THEN "b"
        ELSE "unreachable"

\* the hue of From<Rgb> for Hsv and for Hsl, for an arm that is not the unreachable one
hue_from_rgb_f64(other) ==
    LET xmax == f64_max(other.r, f64_max(other.g, other.b))
        xmin == f64_min(other.r, f64_min(other.g, other.b))
        c == f64_sub(xmax, xmin)
        arm == hue_arm(other)
        h == IF arm = "zero" THEN f64_of(0)
             ELSE IF arm = "r"
                  THEN f64_times(f64_of(60), f64_over(f64_sub(other.g, other.b), c))
             ELSE IF arm = "g"
                  THEN f64_times(f64_of(60),
                                 f64_add(f64_over(f64_sub(other.b, other.r), c), f64_of(2)))
             ELSE f64_times(f64_of(60),
                            f64_add(f64_over(f64_sub(other.r, other.g), c), f64_of(4)))
    IN  IF f64_lt(h, f64_of(0)) THEN f64_add(h, f64_of(360)) ELSE h

\* impl From<Rgb> for Hsv
Hsv_from_Rgb_f64(other) ==
    LET xmax == f64_max(other.r, f64_max(other.g, other.b))
        xmin == f64_min(other.r, f64_min(other.g, other.b))
        c == f64_sub(xmax, xmin)
        s == IF f64_eq(xmax, f64_of(0)) THEN f64_of(0) ELSE f64_over(c, xmax)
    IN  IF hue_arm(other) = "unreachable" THEN Panic
        ELSE Hsv(hue_from_rgb_f64(other), s, xmax)

\* the divisor of the saturation in From<Rgb> for Hsl: 1.0 - (2.0 * xmax - c - 1.0).abs()
Hsl_from_Rgb_divisor(other) ==
    LET xmax == f64_max(other.r, f64_max(other.g, other.b))
        xmin == f64_min(other.r, f64_min(other.g, other.b))
        c == f64_sub(xmax, xmin)
    IN  f64_sub(f64_of(1),
                f64_abs(f64_sub(f64_sub(f64_times(f64_of(2), xmax), c), f64_of(1))))

\* the lightness of From<Rgb> for Hsl
Hsl_from_Rgb_l(other) ==
    LET xmax == f64_max(other.r, f64_max(other.g, other.b))
        xmin == f64_min(other.r, f64_min(other.g, other.b))
    IN  f64_over(f64_add(xmax, xmin), f64_of(2))

\* impl From<Rgb> for Hsl
Hsl_from_Rgb_f64(other) ==
    LET xmax == f64_max(other.r, f64_max(other.g, other.b))
        xmin == f64_min(other.r, f64_min(other.g, other.b))
        c == f64_sub(xmax, xmin)
        l == Hsl_from_Rgb_l(other)
        s == IF f64_eq(l, f64_of(0)) \/ f64_eq(l, f64_of(1)) THEN f64_of(0)
             ELSE f64_over(c, Hsl_from_Rgb_divisor(other))
    IN  IF hue_arm(other) = "unreachable" THEN Panic
        ELSE Hsl(hue_from_rgb_f64(other), s, l)

\* impl From<Hsv> for Hsl
Hsl_from_Hsv_f64(other) ==
    LET l == f64_times(other.v, f64_sub(f64_of(1), f64_over(other.s, f64_of(2))))
        sl == IF f64_eq(l, f64_of(0)) \/ f64_eq(l, f64_of(1)) THEN f64_of(0)
              ELSE f64_times(f64_of(2), f64_sub(f64_of(1), f64_over(l, other.v)))
    IN  Hsl(other.h, sl, l)

\* impl From<Hsl> for Hsv
Hsv_from_Hsl_f64(other) ==
    LET v == f64_add(other.l,
                     f64_times(other.s, f64_min(other.l, f64_sub(f64_of(1), other.l))))
        sv == IF f64_eq(v, f64_of(0)) THEN f64_of(0)
              ELSE f64_times(f64_of(2), f64_sub(f64_of(1), f64_over(other.l, v)))
    IN  Hsv(other.h, sv, v)

\* neighboring(c, x, h1) of types/rgb.rs
neighboring_f64(c, x, h1) ==
    IF f64_in_range(f64_of(0), f64_of(1), h1) THEN <<c, x, f64_of(0)>>
    ELSE IF f64_in_range(f64_of(1), f64_of(2), h1) THEN <<x, c, f64_of(0)>>
    ELSE IF f64_in_range(f64_of(2), f64_of(3), h1) THEN <<f64_of(0), c, x>>
    ELSE IF f64_in_range(f64_of(3), f64_of(4), h1) THEN <<f64_of(0), x, c>>
    ELSE IF f64_in_range(f64_of(4), f64_of(5), h1) THEN <<x, f64_of(0), c>>
    ELSE IF f64_in_range(f64_of(5), f64_of(6), h1) THEN <<c, f64_of(0), x>>
    ELSE <<f64_of(0), f64_of(0), f64_of(0)>>

\* the second largest component: c * (1.0 - (h1 % 2.0 - 1.0).abs())
second_component(c, h1) ==
    f64_times(c, f64_sub(f64_of(1), f64_abs(f64_sub(f64_rem2(h1), f64_of(1)))))

\* impl From<Hsv> for Rgb
Rgb_from_Hsv_f64(other) ==
    LET c == f64_times(other.v, other.s)
        h1 == f64_over(other.h, f64_of(60))
        n == neighboring_f64(c, second_component(c, h1), h1)
        m == f64_sub(other.v, c)
    IN  Rgb(f64_add(n[1], m), f64_add(n[2], m), f64_add(n[3], m))

\* impl From<Hsl> for Rgb
Rgb_from_Hsl_f64(other) ==
    LET c == f64_times(f64_sub(f64_of(1),
                               f64_abs(f64_sub(f64_times(f64_of(2), other.l), f64_of(1)))),
                       other.s)
        h1 == f64_over(other.h, f64_of(60))
        n == neighboring_f64(c, second_component(c, h1), h1)
        m == f64_sub(other.l, f64_over(c, f64_of(2)))
    IN  Rgb(f64_add(n[1], m), f64_add(n[2], m), f64_add(n[3], m))

\* one operation on operands that have been evaluated
f64_eval(op, x, y) ==
    LET sign == IF x.sign = y.sign THEN 0 ELSE 1
        zero(s) == [sign |-> s, m |-> <<>>, e |-> 0]
    IN  CASE op = "add" ->
                 IF is_nan(x) \/ is_nan(y) THEN NaN
                 ELSE IF is_infinite(x)
                      THEN (IF is_infinite(y) /\ y.sign # x.sign THEN NaN ELSE x)
                 ELSE IF is_infinite(y) THEN y
                 ELSE IF is_zero(x) /\ is_zero(y)
                      THEN zero(IF x.sign = 1 /\ y.sign = 1 THEN 1 ELSE 0)
                 ELSE IF is_zero(x) THEN y
                 ELSE IF is_zero(y) THEN x
                 ELSE LET e0 == IF x.e < y.e THEN x.e ELSE y.e
                          a == BShl(x.m, x.e - e0)
                          b == BShl(y.m, y.e - e0)
                          less == BLess(a, b)
                      IN  IF x.sign # y.sign /\ a = b THEN zero(0)
                          ELSE F64Round(IF x.sign # y.sign /\ less THEN y.sign ELSE x.sign,
                                        IF x.sign = y.sign THEN BAdd(a, b, 0)
                                        ELSE IF less THEN BSub(b, a, 0)
                                        ELSE BSub(a, b, 0),
                                        1, e0)
          [] op = "sub" -> f64_op("add", x, f64_neg(y))
          [] op = "times" ->
                 IF is_nan(x) \/ is_nan(y) THEN NaN
                 ELSE IF is_infinite(x) \/ is_infinite(y)
                      THEN (IF is_zero(x) \/ is_zero(y) THEN NaN ELSE Inf(sign))
                 ELSE IF is_zero(x) \/ is_zero(y) THEN zero(sign)
                 ELSE F64Round(sign, BMul(x.m, y.m), 1, x.e + y.e)
          [] op = "over" ->
                 IF is_nan(x) \/ is_nan(y) THEN NaN
                 ELSE IF is_infinite(x) THEN (IF is_infinite(y) THEN NaN ELSE Inf(sign))
                 ELSE IF is_infinite(y) THEN zero(sign)
                 ELSE IF is_zero(y) THEN (IF is_zero(x) THEN NaN ELSE Inf(sign))
                 ELSE IF is_zero(x) THEN zero(sign)
                 ELSE F64Quot(sign, x.m, y.m, x.e - y.e)
          [] op = "of" -> F64(IF x < 0 THEN 1 ELSE 0, IF x < 0 THEN 0 - x ELSE x, 0)
          [] op = "Hsv_from_Rgb" -> Hsv_from_Rgb_f64(x)
          [] op = "Hsl_from_Rgb" -> Hsl_from_Rgb_f64(x)
          [] op = "Hsl_from_Hsv" -> Hsl_from_Hsv_f64(x)
          [] op = "Hsv_from_Hsl" -> Hsv_from_Hsl_f64(x)
          [] op = "Rgb_from_Hsv" -> Rgb_from_Hsv_f64(x)
          [] op = "Rgb_from_Hsl" -> Rgb_from_Hsl_f64(x)

\* the operands are evaluated first, then the operation: Rust passes arguments by value
f64_op(op, x0, y0) == CHOOSE r \in {f64_eval(op, x, y) : x \in {x0}, y \in {y0}} : TRUE

\* a conversion between Rgb, Hsv and Hsl, by the name of its impl
convert_f64(name, other) == f64_op(name, other, other)

\* the divisors From<Rgb> for Hsv evaluates: the chroma in the three hue arms, and xmax
Hsv_from_Rgb_divisors(other) ==
    LET xmax == f64_max(other.r, f64_max(other.g, other.b))
        xmin == f64_min(other.r, f64_min(other.g, other.b))
    IN  (IF hue_arm(other) \in {"r", "g", "b"} THEN {f64_sub(xmax, xmin)} ELSE {})
        \cup (IF f64_eq(xmax, f64_of(0)) THEN {} ELSE {xmax})

\* the divisors From<Rgb> for Hsl evaluates: the chroma, and the divisor of the saturation
Hsl_from_Rgb_divisors(other) ==
    LET xmax == f64_max(other.r, f64_max(other.g, other.b))
        xmin == f64_min(other.r, f64_min(other.g, other.b))
        l == Hsl_from_Rgb_l(other)
    IN  (IF hue_arm(other) \in {"r", "g", "b"} THEN {f64_sub(xmax, xmin)} ELSE {})
        \cup (IF f64_eq(l, f64_of(0)) \/ f64_eq(l, f64_of(1)) THEN {}
              ELSE {Hsl_from_Rgb_divisor(other)})

\* the divisor From<Hsv> for Hsl evaluates: other.v, unless l is 0 or 1
Hsl_from_Hsv_divisors(other) ==
    LET l == f64_times(other.v, f64_sub(f64_of(1), f64_over(other.s, f64_of(2))))
    IN  IF f64_eq(l, f64_of(0)) \/ f64_eq(l, f64_of(1)) THEN {} ELSE {other.v}

\* the divisor From<Hsl> for Hsv evaluates: v, unless it is 0
Hsv_from_Hsl_divisors(other) ==
    LET v == f64_add(other.l,
                     f64_times(other.s, f64_min(other.l, f64_sub(f64_of(1), other.l))))
    IN  IF f64_eq(v, f64_of(0)) THEN {} ELSE {v}

(***************************************************************************)
(* The float machine: one colour with binary64 channels and one conversion *)
(* between Rgb, Hsv and Hsl applied to it.                                 *)
(***************************************************************************)
\* channels: 0, 1, 1/2, 2^-70, 128/255, 1/5, and outside [0, 1]: -1, NaN, 3/2
FloatSamples ==
    <<F64(0, 0, 0), F64(0, 1, 0), F64(0, 5, 1), pow2(0 - 70),
      F64Round(0, BFromInt(128), 255, 0), F64(1, 1, 0), NaN, F64(0, 2, 1), F64(0, 15, 1)>>

\* hues in degrees
FloatHueSamples ==
    <<F64(0, 0, 0), F64(0, 200, 0), F64(0, 60, 0), F64(0, 3595, 1), F64(0, 120, 0),
      F64(0, 300, 0)>>

\* how many of FloatSamples and of FloatHueSamples the colours are drawn from
NumFloats == 8

NumFloatHues == 5

Floats == {FloatSamples[i] : i \in 1..NumFloats}

FloatHues == {FloatHueSamples[i] : i \in 1..NumFloatHues}

InitFloat ==
    /\ origin \in {Rgb(r, g, b) : r \in Floats, g \in Floats, b \in Floats}
                  \cup {Hsv(h, s, v) : h \in FloatHues, s \in Floats, v \in Floats}
                  \cup {Hsl(h, s, l) : h \in FloatHues, s \in Floats, l \in Floats}
    /\ value = origin
    /\ trace = <<>>

\* one conversion of the colour the machine started from
First(name, from, result) == trace = <<>> /\ Apply(name, from, result)

RgbToHsvFloat == First("Hsv_from_Rgb", "Rgb", convert_f64("Hsv_from_Rgb", value))

RgbToHslFloat == First("Hsl_from_Rgb", "Rgb", convert_f64("Hsl_from_Rgb", value))

HsvToHslFloat == First("Hsl_from_Hsv", "Hsv", convert_f64("Hsl_from_Hsv", value))

HslToHsvFloat == First("Hsv_from_Hsl", "Hsl", convert_f64("Hsv_from_Hsl", value))

HsvToRgbFloat == First("Rgb_from_Hsv", "Hsv", convert_f64("Rgb_from_Hsv", value))

HslToRgbFloat == First("Rgb_from_Hsl", "Hsl", convert_f64("Rgb_from_Hsl", value))

NextFloat ==
    \/ RgbToHsvFloat
    \/ RgbToHslFloat
    \/ HsvToHslFloat
    \/ HslToHsvFloat
    \/ HsvToRgbFloat
    \/ HslToRgbFloat

SpecFloat == InitFloat /\ [][NextFloat]_vars

\* C21: the conversions are total: for every Rgb, channels in or out of [0, 1], the
\* conversions to Hsv and to Hsl return a value, the unreachable!() arm of the hue
\* selection is never taken and no division by zero is evaluated; Hsv -> Hsl and
\* Hsl -> Hsv never divide by zero either.
C21_Total ==
    /\ (trace = <<"Hsv_from_Rgb">>)
       => /\ value # Panic
          /\ \A d \in Hsv_from_Rgb_divisors(origin) : ~is_zero(d)
    /\ (trace = <<"Hsl_from_Rgb">>)
       => /\ value # Panic
          /\ \A d \in Hsl_from_Rgb_divisors(origin) : ~is_zero(d)
    /\ (trace = <<"Hsl_from_Hsv">>) => \A d \in Hsl_from_Hsv_divisors(origin) : ~is_zero(d)
    /\ (trace = <<"Hsv_from_Hsl">>) => \A d \in Hsv_from_Hsl_divisors(origin) : ~is_zero(d)

(***************************************************************************)
(* Equality and hashing of colour values.                                  *)
(***************************************************************************)
\* f64::to_bits as <<sign bit, exponent field, significand>>: the significand carries the
\* hidden bit, so the triple determines the 64 bits and the 64 bits determine the triple
to_bits(x) ==
    <<x.sign, IF x.e = 1024 THEN 2047 ELSE IF is_zero(x) THEN 0 ELSE x.e + 1075, x.m>>

\* the channels of a colour in field order
fields(type) ==
    IF type = "Rgb" THEN <<"r", "g", "b">> ELSE <<"h", "s", "l", "alpha">>

\* #[derive(PartialEq)]: every field compared with ==, joined by &&
derive_PartialEq(a, b) ==
    \A i \in 1..Len(fields(a.type)) : f64_eq(a[fields(a.type)[i]], b[fields(a.type)[i]])

\* what Hash::hash writes to the hasher: to_bits of every field, in field order
hash(a) == [i \in 1..Len(fields(a.type)) |-> to_bits(a[fields(a.type)[i]])]

\* channels: +0.0, -0.0, NaN, 1, 1/2
EqSamples == <<F64(0, 0, 0), F64(1, 0, 0), NaN, F64(0, 1, 0), F64(0, 5, 1)>>

\* how many of EqSamples the compared colours are drawn from
NumEqFloats == 3

EqFloats == {EqSamples[i] : i \in 1..NumEqFloats}

EqRgb == {Rgb(r, g, b) : r \in EqFloats, g \in EqFloats, b \in EqFloats}

EqHsla == {Hsla(h, s, l, a) : h \in EqFloats, s \in EqFloats, l \in EqFloats, a \in EqFloats}

\* two colours of one model
InitEq ==
    /\ origin \in {[type |-> "RgbPair", left |-> a, right |-> b] : a \in EqRgb, b \in EqRgb}
                  \cup {[type |-> "HslaPair", left |-> a, right |-> b] : a \in EqHsla, b \in EqHsla}
    /\ value = origin
    /\ trace = <<>>

RgbEq ==
    First("Rgb_eq", "RgbPair", [type |-> "bool", is |-> derive_PartialEq(value.left, value.right)])

RgbHash ==
    First("Rgb_hash", "RgbPair",
          [type |-> "hashes", left |-> hash(value.left), right |-> hash(value.right)])

HslaEq ==
    First("Hsla_eq", "HslaPair", [type |-> "bool", is |-> derive_PartialEq(value.left, value.right)])

HslaHash ==
    First("Hsla_hash", "HslaPair",
          [type |-> "hashes", left |-> hash(value.left), right |-> hash(value.right)])

NextEq == RgbEq \/ RgbHash \/ HslaEq \/ HslaHash

SpecEq == InitEq /\ [][NextEq]_vars

\* C22: two colours of one model compare equal exactly when every channel has the same
\* bit pattern, and two colours that compare equal write the same bits to the hasher
C22_BitwiseEq ==
    /\ (trace # <<>> /\ value.type = "bool")
       => (value.is <=> hash(origin.left) = hash(origin.right))
    /\ (trace # <<>> /\ value.type = "hashes")
       => (derive_PartialEq(origin.left, origin.right) => value.left = value.right)

(***************************************************************************)
(* Properties of the conversions in binary64.                              *)
(***************************************************************************)
\* 0 <= x <= 1
in_unit(x) == (f64_lt(f64_of(0), x) \/ f64_eq(f64_of(0), x)) /\ (f64_lt(x, f64_of(1)) \/ f64_eq(x, f64_of(1)))

\* the colour the machine started from is a grey Rgb with r = g = b in [0, 1]
grey == origin.type = "Rgb" /\ origin.r = origin.g /\ origin.g = origin.b /\ in_unit(origin.r)

\* C23: a grey Rgb (r = g = b = x in [0, 1]) converts to Hsv with h = 0, s = 0, v = x and
\* to Hsl with h = 0, s = 0, l = x
C23_GreyHue ==
    /\ (grey /\ trace = <<"Hsv_from_Rgb">>)
       => is_zero(value.h) /\ is_zero(value.s) /\ f64_eq(value.v, origin.r)
    /\ (grey /\ trace = <<"Hsl_from_Rgb">>)
       => is_zero(value.h) /\ is_zero(value.s) /\ f64_eq(value.l, origin.r)

(***************************************************************************)
(* Color::new on functional notation, with the parameters in binary64      *)
(* (lib.rs).                                                               *)
(***************************************************************************)
\* str::parse::<f64>() on lower-case text: "nan", "inf" and "infinity" with an optional
\* sign, or decimal text
lib_parse_f64(string) ==
    LET signed == Len(string) > 0 /\ (string[1] = "-" \/ string[1] = "+")
        body == IF signed THEN Tail(string) ELSE string
        sign == IF signed /\ string[1] = "-" THEN 1 ELSE 0
    IN  IF body = <<"n", "a", "n">> THEN NaN
        ELSE IF body = <<"i", "n", "f">> \/ body = <<"i", "n", "f", "i", "n", "i", "t", "y">>
        THEN Inf(sign)
        ELSE f64_parse(string)

\* impl FromStr for CssNumber (lib.rs); an Integer holds its i8
lib_CssNumber_from_str_f64(string) ==
    IF ends_with(string, "%")
    THEN LET x == lib_parse_f64(SubSeq(string, 1, Len(string) - 1))
         IN  IF x = ParseError THEN Err("InvalidCssPercentage") ELSE Percentage(x)
    ELSE IF find(string, ".") > 0
    THEN LET x == lib_parse_f64(string)
         IN  IF x = ParseError THEN Err("InvalidCssFloat") ELSE Float(x)
    ELSE LET x == parse_i8(string)
         IN  IF x = ParseError THEN Err("InvalidCssInteger") ELSE Integer(x.n)

\* x * k and x / k for an integer 0 < k <= 2^20, infinities and NaN included
f64_scale(x, k, divide) ==
    IF x.e = 1024 THEN x ELSE IF divide THEN f64_div(x, k) ELSE f64_mul(x, k)

\* CssNumber::to_degrees (lib.rs)
to_degrees_f64(number) ==
    CASE number.tag = "Integer" ->
             F64(IF number.x < 0 THEN 1 ELSE 0, IF number.x < 0 THEN 0 - number.x ELSE number.x, 0)
      [] number.tag = "Float" -> number.x
      [] number.tag = "Percentage" -> f64_scale(number.x, 360, FALSE)

\* impl From<CssNumber> for f64 (lib.rs)
f64_from_CssNumber_f64(other) ==
    CASE other.tag = "Integer" ->
             F64Round(IF other.x < 0 THEN 1 ELSE 0,
                      BFromInt(IF other.x < 0 THEN 0 - other.x ELSE other.x), 255, 0)
      [] other.tag = "Float" -> f64_scale(other.x, 255, TRUE)
      [] other.tag = "Percentage" -> f64_scale(other.x, 100, TRUE)

\* f64::clamp(self, min, max): a NaN is returned as it is
f64_clamp(self, min, max) ==
    IF f64_lt(self, min) THEN min ELSE IF f64_lt(max, self) THEN max ELSE self

\* the numbers of the slice as channels: the hue of Hsv, Hsva, Hsl and Hsla is
\* f64::clamp(to_degrees(), 0.0, 360.0), every other channel f64::clamp(into(), 0.0, 1.0)
slice_channels(kind, other) ==
    [i \in 1..Len(other) |->
        IF i = 1 /\ kind \notin {"Rgb", "Rgba"}
        THEN f64_clamp(to_degrees_f64(other[i]), F64(0, 0, 0), F64(0, 360, 0))
        ELSE f64_clamp(f64_from_CssNumber_f64(other[i]), F64(0, 0, 0), F64(0, 1, 0))]

\* a colour of the type `kind` with the channels ch
colour_of(kind, ch) ==
    CASE kind = "Rgb" -> Rgb(ch[1], ch[2], ch[3])
      [] kind = "Rgba" -> Rgba(ch[1], ch[2], ch[3], ch[4])
      [] kind = "Hsv" -> Hsv(ch[1], ch[2], ch[3])
      [] kind = "Hsva" -> Hsva(ch[1], ch[2], ch[3], ch[4])
      [] kind = "Hsl" -> Hsl(ch[1], ch[2], ch[3])
      [] kind = "Hsla" -> Hsla(ch[1], ch[2], ch[3], ch[4])

\* impl TryFrom<&[CssNumber]> for Rgb, Rgba, Hsv, Hsva, Hsl and Hsla
try_from_slice_f64(kind, other) ==
    IF Len(other) # (IF kind \in {"Rgb", "Hsv", "Hsl"} THEN 3 ELSE 4)
    THEN Err("InvalidCssParameters")
    ELSE colour_of(kind, slice_channels(kind, other))

parse_css_parts_f64(string) ==
    IF Len(string) > 0 /\ string[1] = "(" /\ ends_with(Tail(string), ")")
    THEN LET segments == split(SubSeq(string, 2, Len(string) - 1), ",")
         IN  collect([i \in 1..Len(segments) |-> lib_CssNumber_from_str_f64(segments[i])])
    ELSE Err("MissingParenthesis")

\* what the branch of Color::new that a text takes builds, before its `.into()`
built_f64(string) ==
    LET matching == {k \in 1..Len(Prefixes) : starts_with(string, Prefixes[k].prefix)}
        first == CHOOSE k \in matching : \A j \in matching : k <= j
    IN  IF starts_with(string, <<"#">>) THEN new_hex(after(string, <<"#">>))
        ELSE IF matching = {} THEN Err("UnknownFormat")
        ELSE LET parts == parse_css_parts_f64(after(string, Prefixes[first].prefix))
             IN  IF IsErr(parts) THEN parts
                 ELSE try_from_slice_f64(Prefixes[first].kind, parts.v)

\* Color::new called on the type that the branch taken builds, whose `.into()` is the
\* identity
Color_new_f64(string0) == built_f64(to_ascii_lowercase(remove_spaces(string0)))

(***************************************************************************)
(* The clamping machine: a functional notation whose parameters are drawn  *)
(* from in-range and out-of-range numbers, and Color::new called on it.    *)
(***************************************************************************)
\* parameters: 0, 127, 300.0, 50%, nan%, -5.0, 150%, inf%, 51.0
ClampSamples ==
    <<<<"0">>, <<"1", "2", "7">>, <<"3", "0", "0", ".", "0">>, <<"5", "0", "%">>,
      <<"n", "a", "n", "%">>, <<"-", "5", ".", "0">>, <<"1", "5", "0", "%">>,
      <<"i", "n", "f", "%">>, <<"5", "1", ".", "0">>>>

\* how many of ClampSamples the parameters are drawn from
NumClampSegs == 6

ClampSegs == {ClampSamples[i] : i \in 1..NumClampSegs}

\* "prefix(a,b,c)"
ClampText(prefix, a, b, c) == prefix \o <<"(">> \o a \o <<",">> \o b \o <<",">> \o c \o <<")">>

InitClamp ==
    /\ origin \in {Str(ClampText(Prefixes[k].prefix, a, b, c)) :
                      k \in 1..Len(Prefixes), a \in ClampSegs, b \in ClampSegs, c \in ClampSegs}
    /\ value = origin
    /\ trace = <<>>

ColorNewFloat == First("Color_new", "Str", Color_new_f64(value.s))

NextClamp == ColorNewFloat

SpecClamp == InitClamp /\ [][NextClamp]_vars

\* the parameters of a functional notation "xyz(...)" as numbers
parameters(string) == parse_css_parts_f64(after(string, <<"x", "y", "z">>)).v

\* the number a parameter asks for in channel i of a colour: degrees for a hue, a
\* fraction of one for every other channel
asked(colour, i, number) ==
    IF i = 1 /\ colour.type \notin {"Rgb", "Rgba"} THEN to_degrees_f64(number)
    ELSE f64_from_CssNumber_f64(number)

\* the upper bound of channel i of a colour
upper(colour, i) ==
    IF i = 1 /\ colour.type \notin {"Rgb", "Rgba"} THEN F64(0, 360, 0) ELSE F64(0, 1, 0)

\* lo <= x <= hi
between(x, lo, hi) == (f64_lt(lo, x) \/ f64_eq(lo, x)) /\ (f64_lt(x, hi) \/ f64_eq(x, hi))

\* C24: when Color::new returns Ok for a functional notation, every channel of the colour
\* built lies in its range (0 to 360 for a hue, 0 to 1 otherwise): a parameter in the
\* range is kept and a parameter outside it is replaced by the nearest bound
C24_Clamped ==
    (trace = <<"Color_new">> /\ ~IsErr(value))
    => \A i \in 1..Len(Channels(value)) :
           LET ch == Channels(value)[i]
               p == asked(value, i, parameters(origin.s)[i])
               hi == upper(value, i)
           IN  /\ between(ch, F64(0, 0, 0), hi)
               /\ between(p, F64(0, 0, 0), hi) => ch = p
               /\ f64_lt(p, F64(0, 0, 0)) => ch = F64(0, 0, 0)
               /\ f64_lt(hi, p) => ch = hi

(***************************************************************************)
(* The enum Color of src/lib.rs: Color::new, to_hsla, to_rgba and to_hex.  *)
(***************************************************************************)
\* a variant of enum Color; alpha is <<>> for None and <<a>> for Some(a)
Color(variant, inner, alpha) ==
    [type |-> "Color", variant |-> variant, inner |-> inner, alpha |-> alpha]

\* i16::from_str_radix(src, 16) of two hexadecimal digits
i16_from_str_radix(src) == to_digit(src[1]) * 16 + to_digit(src[2])

\* Color::new: panics on a text shorter than six characters or a pair that is not
\* hexadecimal
enum_Color_new(color0) ==
    LET color == strip_prefix_or(color0, "#")
        channel(k) ==
            F64Round(0, BFromInt(i16_from_str_radix(SubSeq(color, 2 * k - 1, 2 * k))), 255, 0)
    IN  IF Len(color) < 6 \/ \E i \in 1..Len(color) : i <= 8 /\ ~is_ascii_hexdigit(color[i])
        THEN Panic
        ELSE Color("Rgba", Rgb(channel(1), channel(2), channel(3)),
                   IF Len(color) = 8 THEN <<channel(4)>> ELSE <<>>)

\* a variant around a converted colour, or the panic of the conversion
converted(variant, inner, alpha) ==
    IF inner = Panic THEN Panic ELSE Color(variant, inner, alpha)

\* Color::to_hsla; Rgb::to_hsl is the conversion of From<Rgb> for Hsl
enum_Color_to_hsla(self) ==
    IF self.variant = "Rgba"
    THEN converted("Hsla", convert_f64("Hsl_from_Rgb", self.inner), self.alpha)
    ELSE self

\* Color::to_rgba; Hsl::to_rgb is the conversion of From<Hsl> for Rgb
enum_Color_to_rgba(self) ==
    IF self.variant = "Hsla"
    THEN Color("Rgba", convert_f64("Rgb_from_Hsl", self.inner), self.alpha)
    ELSE self

\* an integer of the given sign and magnitude as an i16, saturating
i16_saturating(sign, whole) ==
    IF BBitLen(whole) > 15 THEN (IF sign = 1 THEN 0 - 32768 ELSE 32767)
    ELSE IF sign = 1 THEN 0 - BToInt(whole) ELSE BToInt(whole)

\* x as i16: truncated towards zero, saturating, 0 for a NaN
f64_as_i16(x) ==
    IF is_nan(x) THEN 0
    ELSE IF is_infinite(x) THEN i16_saturating(x.sign, BShl(<<1>>, 20))
    ELSE i16_saturating(x.sign, IF x.e >= 0 THEN BShl(x.m, x.e)
                                ELSE BShrSticky(x.m, 0 - x.e, FALSE).q)

\* (x * 255.0) as i16
times_255_as_i16(x) == f64_as_i16(f64_scale(x, 255, FALSE))

\* format!("{:X}", int) of an i16: no padding, two's complement for a negative number
format_X_i16(int) ==
    LET bits == IF int < 0 THEN int + 65536 ELSE int
    IN  format_X(<<bits \div 256, bits % 256>>, 1)

\* Color::to_hex of the variant Rgba
Rgba_to_hex(self) ==
    Str(<<"#">> \o format_X_i16(times_255_as_i16(self.inner.r))
            \o format_X_i16(times_255_as_i16(self.inner.g))
            \o format_X_i16(times_255_as_i16(self.inner.b))
            \o (IF self.alpha = <<>> THEN <<>>
                ELSE format_X_i16(times_255_as_i16(self.alpha[1]))))

\* Color::to_hex
enum_Color_to_hex(self) ==
    IF self.variant = "Rgba" THEN Rgba_to_hex(self) ELSE Rgba_to_hex(enum_Color_to_rgba(self))

(***************************************************************************)
(* The enum Color machine: a text "#RRGGBB" in upper-case digits, parsed   *)
(* by Color::new, converted and formatted again.                           *)
(***************************************************************************)
\* digit pairs of the colours of tests::TEST_COLORS
EnumPairSamples ==
    <<<<"0", "0">>, <<"F", "F">>, <<"0", "F">>, <<"1", "A">>, <<"3", "5">>, <<"4", "8">>,
      <<"8", "0">>>>

\* how many of EnumPairSamples the texts are drawn from
NumEnumPairs == 5

EnumPairs == {EnumPairSamples[i] : i \in 1..NumEnumPairs}

InitEnum ==
    /\ origin \in {Str(<<"#">> \o a \o b \o c) : a \in EnumPairs, b \in EnumPairs, c \in EnumPairs}
    /\ value = origin
    /\ trace = <<>>

EnumNew == Apply("Color_new", "Str", enum_Color_new(value.s))

EnumToHsla == Apply("to_hsla", "Color", enum_Color_to_hsla(value))

EnumToHex == Apply("to_hex", "Color", enum_Color_to_hex(value))

NextEnum == EnumNew \/ EnumToHsla \/ EnumToHex

SpecEnum == InitEnum /\ [][NextEnum]_vars

\* C25: Color::new(c).to_hsla().to_hex() is c again, for every text c of '#' and six
\* upper-case hexadecimal digits
C25_HexHslaHex ==
    (trace = <<"Color_new", "to_hsla", "to_hex">>) => value = origin

\* a colour whose channels are all within their ranges: r, g, b, s, v, l within [0, 1]
\* and h within [0, 360)
in_range(colour) ==
    CASE colour.type = "Rgb" -> in_unit(colour.r) /\ in_unit(colour.g) /\ in_unit(colour.b)
      [] colour.type = "Hsv" ->
             /\ ~f64_lt(colour.h, f64_of(0)) /\ f64_lt(colour.h, f64_of(360))
             /\ in_unit(colour.s) /\ in_unit(colour.v)
      [] colour.type = "Hsl" ->
             /\ ~f64_lt(colour.h, f64_of(0)) /\ f64_lt(colour.h, f64_of(360))
             /\ in_unit(colour.s) /\ in_unit(colour.l)
      [] OTHER -> FALSE

\* C26: every conversion maps a colour within its ranges to a colour within its ranges:
\* Rgb -> Hsv and Rgb -> Hsl give h in [0, 360) and s, v, l in [0, 1], Hsv -> Rgb and
\* Hsl -> Rgb give r, g, b in [0, 1], and Hsv -> Hsl and Hsl -> Hsv give s, v, l in
\* [0, 1] and leave the hue unchanged.
C26_InRange ==
    (trace # <<>> /\ in_range(origin))
    => /\ in_range(value)
       /\ (trace[1] \in {"Hsl_from_Hsv", "Hsv_from_Hsl"}) => value.h = origin.h


(***************************************************************************)
(* The order of the errors of CssColorNotation::from_str (css.rs): one     *)
(* text, parsed once.                                                      *)
(***************************************************************************)
\* number segments: a number, two that fail with different errors, and an empty one
OrderSegSamples ==
    <<<<"2", "5", "5">>,
      <<"x">>,
      <<"x", "%">>,
      <<>>,
      <<"5", "0", "%">>>>

\* how many of OrderSegSamples the argument lists are drawn from
NumOrderSegs == 3

OrderSegs == {OrderSegSamples[i] : i \in 1..NumOrderSegs}

OrderArgLists == UNION {[1..k -> OrderSegs] : k \in 1..MaxArgs}

InitOrder ==
    /\ origin \in {Str(t) : t \in {Notation(ident, args) : ident \in Idents,
                                                           args \in OrderArgLists}
                                   \cup BrokenStrings}
    /\ value = origin
    /\ trace = <<>>

ParseOrder == First("CssColorNotation_from_str", "Str", CssColorNotation_from_str(value.s))

NextOrder == ParseOrder

SpecOrder == InitOrder /\ [][NextOrder]_vars

\* the space-stripped text has no '(' or what follows its first '(' does not end with ')'
parens_missing(c) ==
    \/ OpenAt(c) = 0
    \/ ~ends_with(SubSeq(TextOf(c), OpenAt(c) + 1, Len(TextOf(c))), ")")

\* the segments that fail to parse as a number
failing_segments(c) ==
    {i \in 1..Len(SegmentsOf(c)) : IsErr(CssNumber_from_str(SegmentsOf(c)[i]))}

leftmost(set) == CHOOSE i \in set : \A j \in set : i <= j

\* C27: CssColorNotation::from_str reports exactly one error, chosen in a fixed order:
\* MissingCssParens when the space-stripped text has no '(' or the text after the first
\* '(' does not end with ')'; else UnknownCssFormat when the identifier is not one of the
\* six names; else the error of the leftmost segment that is not a number; else
\* InvalidCssParams when the number of values is not the arity; and Ok, with every
\* value, only when none of these applies.
C27_ErrorOrder ==
    (trace = <<"CssColorNotation_from_str">>)
    => IF parens_missing(origin) THEN value = Err("MissingCssParens")
       ELSE IF IdentOf(origin) \notin KnownIdents THEN value = Err("UnknownCssFormat")
       ELSE IF failing_segments(origin) # {}
       THEN value = CssNumber_from_str(SegmentsOf(origin)[leftmost(failing_segments(origin))])
       ELSE IF Len(SegmentsOf(origin)) # RequiredArity(IdentOf(origin))
       THEN value = Err("InvalidCssParams")
       ELSE /\ value.type = "Css"
            /\ value.values =
                  [i \in 1..Len(SegmentsOf(origin)) |-> CssNumber_from_str(SegmentsOf(origin)[i])]

\* "rgb(x%,x,255)" was parsed: two segments fail, with different errors, and the error
\* returned is the one of the first
C27_Witness ==
    /\ trace = <<"CssColorNotation_from_str">>
    /\ origin = Str(<<"r", "g", "b", "(", "x", "%", ",", "x", ",", "2", "5", "5", ")">>)
    /\ value = Err("InvalidCssPercent")

(***************************************************************************)
(* Color::new with its `.into()`: a text, and Color::new called on it for  *)
(* one of Rgb, Hsv and Hsl (lib.rs).                                       *)
(***************************************************************************)
\* impl From<Rgba> for Rgb, From<Hsva> for Hsv, From<Hsla> for Hsl: the alpha is dropped
drop_alpha(other) ==
    CASE other.type = "Rgba" -> Rgb(other.r, other.g, other.b)
      [] other.type = "Hsva" -> Hsv(other.h, other.s, other.v)
      [] other.type = "Hsla" -> Hsl(other.h, other.s, other.l)
      [] OTHER -> other

\* the From impl between two of Rgb, Hsv and Hsl
From_impl(target, type) ==
    CASE target = "Rgb" -> IF type = "Hsv" THEN "Rgb_from_Hsv" ELSE "Rgb_from_Hsl"
      [] target = "Hsv" -> IF type = "Rgb" THEN "Hsv_from_Rgb" ELSE "Hsv_from_Hsl"
      [] target = "Hsl" -> IF type = "Rgb" THEN "Hsl_from_Rgb" ELSE "Hsl_from_Hsv"

\* other.into() for a target among Rgb, Hsv and Hsl: a colour with alpha goes through
\* the colour of its own model without alpha
into_f64(target, other) ==
    IF drop_alpha(other).type = target THEN drop_alpha(other)
    ELSE convert_f64(From_impl(target, drop_alpha(other).type), drop_alpha(other))

\* Color::new called on the type `target`: what the branch taken builds, converted into
\* the target; the channels of a hexadecimal text are exact
Color_new_into(target, string0) ==
    IF starts_with(to_ascii_lowercase(remove_spaces(string0)), <<"#">>)
    THEN Color_new(target, string0)
    ELSE IF IsErr(Color_new_f64(string0)) THEN Color_new_f64(string0)
    ELSE into_f64(target, Color_new_f64(string0))

\* parameters: 0, nan%, 50%, 127
PanicSegSamples ==
    <<<<"0">>, <<"n", "a", "n", "%">>, <<"5", "0", "%">>, <<"1", "2", "7">>>>

\* how many of PanicSegSamples the parameters are drawn from
NumPanicSegs == 3

PanicSegs == {PanicSegSamples[i] : i \in 1..NumPanicSegs}

\* '#'-prefixed texts of six and of eight hexadecimal digits
EvenHexStrings ==
    {<<"#", "0", "0", "0", "0", "0", "0">>,
     <<"#", "F", "f", "8", "0", "0", "1">>,
     <<"#", "1", "2", "3", "4", "5", "6", "7", "8">>,
     <<"#", "a", "B", "c", "D", "e", "F", "0", "9">>}

InitPanic ==
    /\ origin \in {Str(s) : s \in {ClampText(Prefixes[k].prefix, a, b, c) :
                                      k \in 1..Len(Prefixes),
                                      a \in PanicSegs, b \in PanicSegs, c \in PanicSegs}
                                  \cup OddHexStrings \cup EvenHexStrings}
    /\ value = origin
    /\ trace = <<>>

PanicTargets == {"Rgb", "Hsv", "Hsl"}

ColorNewInto ==
    \E target \in PanicTargets :
        First("Color_new_" \o target, "Str", Color_new_into(target, value.s))

NextPanic == ColorNewInto

SpecPanic == InitPanic /\ [][NextPanic]_vars

\* the digits of a '#'-prefixed text, after the spaces are removed
hex_digits_of(c) == after(to_ascii_lowercase(TextOf(c)), <<"#">>)

\* C28: Color::new never panics, whatever the text: every failure is an Err value, and
\* the unchecked hexadecimal decoders, which panic on short or non-hexadecimal text, are
\* only reached with exactly 6 hexadecimal digits (Rgb) or exactly 8 (Rgba)
C28_NoPanic ==
    (Len(trace) = 1 /\ IsColorNew(trace[1]))
    => /\ value # Panic
       /\ (starts_with(TextOf(origin), <<"#">>) /\ ~IsErr(value))
          => /\ Len(hex_digits_of(origin)) \in {6, 8}
             /\ \A i \in 1..Len(hex_digits_of(origin)) :
                    is_ascii_hexdigit(hex_digits_of(origin)[i])

(***************************************************************************)
(* Colours and arrays of channels (hsl.rs, hsla.rs): an array of three or  *)
(* four numbers, made into an Hsl or an Hsla and back.                     *)
(***************************************************************************)
Array(items) == [type |-> "Array" \o ToString(Len(items)), items |-> items]

\* impl From<[f64; 3]> for Hsl
Hsl_from_array(array) == Hsl(array.items[1], array.items[2], array.items[3])

\* impl From<Hsl> for [f64; 3]
array_from_Hsl(color) == Array(<<color.h, color.s, color.l>>)

\* impl From<[f64; 4]> for Hsla: element 1 of the array goes to l and element 2 to s
Hsla_from_array(array) ==
    [type |-> "Hsla", h |-> array.items[1], l |-> array.items[2], s |-> array.items[3],
     alpha |-> array.items[4]]

\* impl From<Hsla> for [f64; 4]
array_from_Hsla(color) == Array(<<color.h, color.s, color.l, color.alpha>>)

\* array elements: 0, 1, 1/2, 240, 1/4
ArraySamples == <<Zero, One, Rat(1, 2), Rat(240, 1), Rat(1, 4)>>

\* how many of ArraySamples the arrays are drawn from
NumArrayItems == 4

ArrayItems == {ArraySamples[i] : i \in 1..NumArrayItems}

InitArray ==
    /\ origin \in {Array(items) : items \in [1..3 -> ArrayItems] \cup [1..4 -> ArrayItems]}
    /\ value = origin
    /\ trace = <<>>

HslFromArray == Apply("Hsl_from_array", "Array3", Hsl_from_array(value))

ArrayFromHsl == Apply("array_from_Hsl", "Hsl", array_from_Hsl(value))

HslaFromArray == Apply("Hsla_from_array", "Array4", Hsla_from_array(value))

ArrayFromHsla == Apply("array_from_Hsla", "Hsla", array_from_Hsla(value))

NextArray == HslFromArray \/ ArrayFromHsl \/ HslaFromArray \/ ArrayFromHsla

SpecArray == InitArray /\ [][NextArray]_vars

\* C30: the array conversion of Hsla keeps the order of the channels: Hsla::from(array)
\* has hue = element 0, saturation = element 1, lightness = element 2 and alpha =
\* element 3, the order of Hsl's array of three and of the array an Hsla gives, so an array
\* made into an Hsla and back is the same array
C30_ArrayOrder ==
    /\ (trace = <<"Hsla_from_array">>)
       => /\ value.h = origin.items[1]
          /\ value.s = origin.items[2]
          /\ value.l = origin.items[3]
          /\ value.alpha = origin.items[4]
    /\ (trace = <<"Hsla_from_array", "array_from_Hsla">>) => value = origin

====
